---- MODULE Spec2Model ----
(***************************************************************************)
(* Verification model of the summarize core: the file-backed media cache   *)
(* (src/media-cache.ts), the slides lock and extraction pipeline and the   *)
(* timestamp selection of the slides extractor, and the slides manifest    *)
(* validation (src/slides/store.ts), the files of the cache index, the     *)
(* cost report of a run, the slides done-hook of the URL flow, the daemon  *)
(* recovery of the browser extension, the LLM calls, the choice of the     *)
(* model of a summary, scene detection and the parallel slide tasks, the   *)
(* input target and output language of the command line, the files of     *)
(* slidesDir and the hover summaries of the browser extension.             *)
(***************************************************************************)
EXTENDS Integers, Sequences, FiniteSets, TLC

VARIABLES
  clock,       \* Date.now()
  ttlMs,       \* createMediaCache({ttlMs})
  verify,      \* createMediaCache({verify})
  indexFile,   \* index.json: the entries, in key insertion order
  payloads,    \* payload files of cacheDir: file name -> <<>> or <<content>>
  mc,          \* media-cache operations in flight, one slot per caller
  mcOps,       \* operations started so far
  lastWriter,  \* the caller whose writeIndex produced the current index.json
  slidesLocks, \* the slidesLocks map: slidesDir -> <<>> or <<promise>>
  settled,     \* the lock promises that have been resolved
  lk,          \* withSlidesLock calls in flight, one slot per caller
  lkCalls,     \* withSlidesLock calls made so far
  pxCfg,       \* the source kind and settings of the extraction
  px,          \* where the body of extractSlidesForSource stands, its locals
  tmpDirs,     \* the temp directories of downloadYoutubeVideo that exist
  frames,      \* the runners of each extractFrames() attempt
  prog,        \* reportSlidesProgress's lastText/lastPercent, and the hook
  stageLog,    \* per stage: stream failures, downloads and retries so far
  slidesJson,  \* slides.json of slidesDir: <<>> or <<manifest>>
  disk,        \* the regular files that exist
  sret,        \* what the last reader of slides.json returned
  stCfg,       \* the detection output and the settings the slides come from
  stPc,        \* where the making of the slides stands
  stSlides,    \* the slides, in list order
  stFixed,     \* the slides whose thumbnail was refined
  ix,          \* the cache directory as a file system, and the writers of
               \* index.json
  cost,        \* the LLM calls and service requests of a run, and its report
  flow,        \* the URL runs: where each stands, its slides pipeline and
               \* the calls of its onSlidesDone hook
  rec,         \* the daemon recovery of the extension, and its last check
  llmCall,     \* a call of generateTextWithModelId or streamTextWithModelId
  summ,        \* the summary of a run: its candidates and what became of them
  det,         \* detectSlideTimestamps: its segments and detection passes
  par,         \* the frame and OCR tasks of an extraction and their results
  tgt,         \* resolveInputTarget: the input, the files there, the result
  lang,        \* resolveOutputLanguage of an input and of the label it gave
  sdir,        \* the files of slidesDir during one extraction, and its slides
  hov          \* the hover tooltip of the extension: pointer, timer, handleHover calls

cacheVars == <<clock, ttlMs, verify, indexFile, payloads, mc, mcOps, lastWriter>>

lockVars == <<slidesLocks, settled, lk, lkCalls>>

pipeVars == <<pxCfg, px, tmpDirs, frames, prog, stageLog>>

storeVars == <<slidesJson, disk, sret>>

stampVars == <<stCfg, stPc, stSlides, stFixed>>

\* the components that keep their state in one variable each
laterVars ==
  <<ix, cost, flow, rec, llmCall, summ, det, par, tgt, lang, sdir,
    hov>>

vars == <<cacheVars, lockVars, pipeVars, storeVars, stampVars, laterVars>>

\* what the operations of one component leave alone
otherThanCache == <<lockVars, pipeVars, storeVars, stampVars, laterVars>>
otherThanLock == <<cacheVars, pipeVars, storeVars, stampVars, laterVars>>
otherThanPipe == <<cacheVars, lockVars, storeVars, stampVars, laterVars>>
otherThanStore == <<cacheVars, lockVars, pipeVars, stampVars, laterVars>>
otherThanStamps == <<cacheVars, lockVars, pipeVars, storeVars, laterVars>>
earlierVars == <<cacheVars, lockVars, pipeVars, storeVars, stampVars>>
otherThanIndex ==
  <<earlierVars, cost, flow, rec, llmCall, summ, det, par, tgt, lang, sdir,
    hov>>
otherThanCost ==
  <<earlierVars, ix, flow, rec, llmCall, summ, det, par, tgt, lang, sdir,
    hov>>
otherThanFlow ==
  <<earlierVars, ix, cost, rec, llmCall, summ, det, par, tgt, lang, sdir,
    hov>>
otherThanRecovery ==
  <<earlierVars, ix, cost, flow, llmCall, summ, det, par, tgt, lang, sdir,
    hov>>
otherThanLlm ==
  <<earlierVars, ix, cost, flow, rec, summ, det, par, tgt, lang, sdir, hov>>
otherThanSummary ==
  <<earlierVars, ix, cost, flow, rec, llmCall, det, par, tgt, lang, sdir,
    hov>>
otherThanDetect ==
  <<earlierVars, ix, cost, flow, rec, llmCall, summ, par, tgt, lang, sdir,
    hov>>
otherThanTasks ==
  <<earlierVars, ix, cost, flow, rec, llmCall, summ, det, tgt, lang, sdir,
    hov>>
otherThanTarget ==
  <<earlierVars, ix, cost, flow, rec, llmCall, summ, det, par, lang, sdir,
    hov>>
otherThanLanguage ==
  <<earlierVars, ix, cost, flow, rec, llmCall, summ, det, par, tgt, sdir,
    hov>>
otherThanDir ==
  <<earlierVars, ix, cost, flow, rec, llmCall, summ, det, par, tgt, lang,
    hov>>
otherThanHover ==
  <<earlierVars, ix, cost, flow, rec, llmCall, summ, det, par, tgt, lang, sdir>>

(***************************************************************************)
(* Bounds of the model.                                                    *)
(***************************************************************************)
MaxClock == 2
MaxOps == 2
CacheMaxBytes == 4
TtlMs == 1
MaxLockCalls == 4
NFrames == 3
SlidesWorkers == 2
NSegments == 2
MaxDlEvents == 1
MaxSlidesOnDisk == 2
MaxScenes == 2
MaxFixes == 2
MaxIxClock == 1
MaxIndexLen == 2
MaxLlmCalls == 3
MaxRequests == 1
MaxFailures == 2
MaxChunks == 2
MaxInputTokens == 2
MaxPieces == 4
MaxDirSlides == 2
MaxCandidates == 2
MaxHovers == 3

(***************************************************************************)
(* Generic helpers.                                                        *)
(***************************************************************************)
Null == <<>>
Some(x) == <<x>>
IsNull(x) == x = <<>>
Val(x) == x[1]

RECURSIVE SumSeq(_)
SumSeq(s) == IF s = <<>> THEN 0 ELSE Head(s) + SumSeq(Tail(s))

(***************************************************************************)
(* Media cache: src/src/media-cache.ts                                     *)
(***************************************************************************)
Callers == {"p1", "p2"}
HttpUrls == {"https://a", "https://b"}
OtherUrls == {"file:///f"}
Urls == HttpUrls \cup OtherUrls
Exts == {".mp3", ".mp4"}
\* source file sizes: two that fit together, one that does not fit beside
\* another, one larger than the cap
SrcSizes == {CacheMaxBytes \div 2, CacheMaxBytes \div 2 + 1, CacheMaxBytes + 1}

maxBytes == CacheMaxBytes

CacheAnyUrl(url) == TRUE

shouldCacheUrl(url) == url \in HttpUrls

hashKey(url) == <<"sha256", url>>

FileNameOf(url, ext) == <<hashKey(url), ext>>

FileNames == {FileNameOf(u, e) : u \in HttpUrls, e \in Exts}

hashFile(content) == <<"sha256", content.size, content.data>>

\* index.entries[key]
HasKey(index, key) == \E i \in 1..Len(index) : index[i].key = key
EntryAt(index, key) ==
  LET i == CHOOSE i \in 1..Len(index) : index[i].key = key IN index[i]

\* index.entries[key] = entry: an existing key keeps its place, a new key is
\* appended (property order of a JavaScript object)
SetEntry(index, entry) ==
  IF HasKey(index, entry.key)
    THEN [i \in 1..Len(index) |->
            IF index[i].key = entry.key THEN entry ELSE index[i]]
    ELSE Append(index, entry)

\* delete index.entries[key]
DeleteKeys(index, keys) == SelectSeq(index, LAMBDA e : e.key \notin keys)

RemoveNoFiles(files, names) == files

\* fs.rm(path, {force: true}) for each file name of a set
RemoveFiles(files, names) ==
  [f \in DOMAIN files |-> IF f \in names THEN Null ELSE files[f]]

IsExpiredLt(entry, now) ==
  ~IsNull(entry.expiresAtMs) /\ Val(entry.expiresAtMs) < now

IsExpired(entry, now) ==
  ~IsNull(entry.expiresAtMs) /\ Val(entry.expiresAtMs) <= now

\* pruneExpired: the keys it removes from the index
ExpiredKeys(index, now) ==
  {index[i].key : i \in {j \in 1..Len(index) : IsExpired(index[j], now)}}

FileNamesOfKeys(index, keys) ==
  {index[i].fileName : i \in {j \in 1..Len(index) : index[j].key \in keys}}

TotalBytes(index) == SumSeq([i \in 1..Len(index) |-> index[i].sizeBytes])

\* entries.sort((a, b) => a.lastAccessAtMs - b.lastAccessAtMs), a stable sort
RECURSIVE InsertByAccess(_, _)
InsertByAccess(sorted, e) ==
  IF sorted = <<>> THEN <<e>>
  ELSE IF e.lastAccessAtMs < Head(sorted).lastAccessAtMs
         THEN <<e>> \o sorted
         ELSE <<Head(sorted)>> \o InsertByAccess(Tail(sorted), e)

RECURSIVE SortByAccess(_)
SortByAccess(index) ==
  IF index = <<>> THEN <<>>
  ELSE InsertByAccess(SortByAccess(SubSeq(index, 1, Len(index) - 1)),
                      index[Len(index)])

\* the eviction loop of enforceMaxBytes: the keys removed
RECURSIVE EvictLoop(_, _)
EvictLoop(sorted, totalBytes) ==
  IF sorted = <<>> \/ totalBytes <= maxBytes THEN {}
  ELSE {Head(sorted).key}
         \cup EvictLoop(Tail(sorted), totalBytes - Head(sorted).sizeBytes)

EvictNothing(index) == {}

enforceMaxBytes(index) ==
  IF maxBytes <= 0 \/ index = <<>> THEN {}
  ELSE IF TotalBytes(index) <= maxBytes THEN {}
  ELSE EvictLoop(SortByAccess(index), TotalBytes(index))

Idle == [pc |-> "idle"]

CacheInit ==
  /\ clock = 0
  /\ ttlMs \in {0, TtlMs}
  /\ verify \in {"none", "size", "hash"}
  /\ indexFile = <<>>
  /\ payloads = [f \in FileNames |-> Null]
  /\ mc = [p \in Callers |-> Idle]
  /\ mcOps = 0
  /\ lastWriter = "none"

\* Date.now() advances
Tick ==
  /\ UNCHANGED otherThanCache
  /\ clock < MaxClock
  /\ clock' = clock + 1
  /\ UNCHANGED <<ttlMs, verify, indexFile, payloads, mc, mcOps, lastWriter>>

\* the caller's slot is free once its previous call has returned
Free(p) == mc[p].pc \in {"idle", "done"}

Release(p) == IF lastWriter = p THEN "none" ELSE lastWriter

\* readIndex followed by pruneExpired on the copy that was read
Pruned(now) == DeleteKeys(indexFile, ExpiredKeys(indexFile, now))
PrunedFiles(now) ==
  RemoveFiles(payloads, FileNamesOfKeys(indexFile, ExpiredKeys(indexFile, now)))

\* put, lines 277-280: reject a non-http(s) url, else read the clock, read
\* index.json and prune the expired entries of the copy
PutBegin(p, url, ext, size) ==
  /\ UNCHANGED otherThanCache
  /\ Free(p)
  /\ mcOps < MaxOps
  /\ mcOps' = mcOps + 1
  /\ lastWriter' = Release(p)
  /\ IF ~shouldCacheUrl(url)
       THEN /\ mc' = [mc EXCEPT ![p] =
                 [pc |-> "done", op |-> "put", url |-> url, now |-> clock,
                  ret |-> Null, wrote |-> FALSE, evicted |-> {},
                  srcMoved |-> FALSE]]
            /\ UNCHANGED payloads
       ELSE /\ mc' = [mc EXCEPT ![p] =
                 [pc |-> "read", op |-> "put", url |-> url, ext |-> ext,
                  src |-> [size |-> size, data |-> p], now |-> clock,
                  index |-> Pruned(clock),
                  pruned |-> ExpiredKeys(indexFile, clock)]]
            /\ payloads' = PrunedFiles(clock)
  /\ UNCHANGED <<clock, ttlMs, verify, indexFile>>

\* get, lines 222-225
GetBegin(p, url) ==
  /\ UNCHANGED otherThanCache
  /\ Free(p)
  /\ mcOps < MaxOps
  /\ mcOps' = mcOps + 1
  /\ lastWriter' = Release(p)
  /\ IF ~shouldCacheUrl(url)
       THEN /\ mc' = [mc EXCEPT ![p] =
                 [pc |-> "done", op |-> "get", url |-> url, now |-> clock,
                  ret |-> Null, wrote |-> FALSE, evicted |-> {},
                  srcMoved |-> FALSE]]
            /\ UNCHANGED payloads
       ELSE /\ mc' = [mc EXCEPT ![p] =
                 [pc |-> "read", op |-> "get", url |-> url, now |-> clock,
                  index |-> Pruned(clock),
                  pruned |-> ExpiredKeys(indexFile, clock)]]
            /\ payloads' = PrunedFiles(clock)
  /\ UNCHANGED <<clock, ttlMs, verify, indexFile>>

\* put, lines 281-307: reject an oversize source, else move it into place,
\* hash it, add the entry and enforce the byte cap
PutStore(p) ==
  /\ UNCHANGED otherThanCache
  /\ mc[p].pc = "read"
  /\ mc[p].op = "put"
  /\ LET m == mc[p]
         fileName == FileNameOf(m.url, m.ext)
     IN
     IF maxBytes > 0 /\ m.src.size > maxBytes
       THEN /\ mc' = [mc EXCEPT ![p] =
                 [pc |-> "done", op |-> "put", url |-> m.url, now |-> m.now,
                  ret |-> Null, wrote |-> FALSE, evicted |-> {},
                  srcMoved |-> FALSE]]
            /\ UNCHANGED payloads
       ELSE LET moved == [payloads EXCEPT ![fileName] = Some(m.src)]
                entry == [key |-> hashKey(m.url),
                          url |-> m.url,
                          fileName |-> fileName,
                          sizeBytes |-> m.src.size,
                          sha256 |-> IF verify = "hash"
                                       THEN Some(hashFile(Val(moved[fileName])))
                                       ELSE Null,
                          createdAtMs |-> m.now,
                          lastAccessAtMs |-> m.now,
                          expiresAtMs |-> IF ttlMs > 0 THEN Some(m.now + ttlMs)
                                                       ELSE Null]
                added == SetEntry(m.index, entry)
                gone == enforceMaxBytes(added)
                kept == DeleteKeys(added, gone)
            IN
            /\ payloads' = RemoveFiles(moved, FileNamesOfKeys(added, gone))
            /\ mc' = [mc EXCEPT ![p] =
                 [pc |-> "write", op |-> "put", url |-> m.url, now |-> m.now,
                  index |-> kept, evicted |-> gone, srcMoved |-> TRUE,
                  ret |-> IF HasKey(kept, entry.key)
                            THEN Some(EntryAt(kept, entry.key)) ELSE Null]]
  /\ UNCHANGED <<clock, ttlMs, verify, indexFile, mcOps, lastWriter>>

\* get, lines 226-261: look the entry up, stat and verify the payload
GetCheck(p) ==
  /\ UNCHANGED otherThanCache
  /\ mc[p].pc = "read"
  /\ mc[p].op = "get"
  /\ LET m == mc[p]
         key == hashKey(m.url)
     IN
     IF ~HasKey(m.index, key)
       THEN /\ mc' = [mc EXCEPT ![p] =
                 [pc |-> "done", op |-> "get", url |-> m.url, now |-> m.now,
                  ret |-> Null, wrote |-> FALSE, evicted |-> {},
                  srcMoved |-> FALSE]]
            /\ UNCHANGED payloads
       ELSE LET entry == EntryAt(m.index, key)
                file == payloads[entry.fileName]
                bad == \/ IsNull(file)
                       \/ verify = "size" /\ Val(file).size # entry.sizeBytes
                       \/ /\ verify = "hash"
                          /\ ~IsNull(entry.sha256)
                          /\ Val(entry.sha256) # hashFile(Val(file))
            IN
            IF bad
              THEN /\ payloads' = RemoveFiles(payloads, {entry.fileName})
                   /\ mc' = [mc EXCEPT ![p] =
                        [pc |-> "write", op |-> "get", url |-> m.url,
                         now |-> m.now, index |-> DeleteKeys(m.index, {key}),
                         evicted |-> {key}, srcMoved |-> FALSE, ret |-> Null]]
              ELSE LET touched ==
                         [entry EXCEPT
                            !.sha256 = IF verify = "hash"
                                         THEN Some(hashFile(Val(file))) ELSE @,
                            !.sizeBytes = Val(file).size,
                            !.lastAccessAtMs = m.now]
                   IN
                   /\ UNCHANGED payloads
                   /\ mc' = [mc EXCEPT ![p] =
                        [pc |-> "write", op |-> "get", url |-> m.url,
                         now |-> m.now, index |-> SetEntry(m.index, touched),
                         evicted |-> {}, srcMoved |-> FALSE,
                         ret |-> Some(touched)]]
  /\ UNCHANGED <<clock, ttlMs, verify, indexFile, mcOps, lastWriter>>

\* writeIndex and the return that follows it (get 236/243/251/262, put 308)
WriteIndex(p) ==
  /\ UNCHANGED otherThanCache
  /\ mc[p].pc = "write"
  /\ indexFile' = mc[p].index
  /\ lastWriter' = p
  /\ mc' = [mc EXCEPT ![p] =
       [pc |-> "done", op |-> @.op, url |-> @.url, now |-> @.now,
        ret |-> @.ret, wrote |-> TRUE, evicted |-> @.evicted,
        srcMoved |-> @.srcMoved]]
  /\ UNCHANGED <<clock, ttlMs, verify, payloads, mcOps>>

CacheNext ==
  \/ Tick
  \/ \E p \in Callers, url \in Urls, ext \in Exts, size \in SrcSizes :
       PutBegin(p, url, ext, size)
  \/ \E p \in Callers, url \in Urls : GetBegin(p, url)
  \/ \E p \in Callers : PutStore(p)
  \/ \E p \in Callers : GetCheck(p)
  \/ \E p \in Callers : WriteIndex(p)

\* A cache directory in use: what put(https://a) and put(https://b), each of
\* a file of half the cap, leave behind when both ran at time 0.
WarmContent == [size |-> CacheMaxBytes \div 2, data |-> "p1"]

WarmEntry(url) ==
  [key |-> hashKey(url),
   url |-> url,
   fileName |-> FileNameOf(url, ".mp3"),
   sizeBytes |-> WarmContent.size,
   sha256 |-> IF verify = "hash" THEN Some(hashFile(WarmContent)) ELSE Null,
   createdAtMs |-> 0,
   lastAccessAtMs |-> 0,
   expiresAtMs |-> IF ttlMs > 0 THEN Some(ttlMs) ELSE Null]

CacheWarmInit ==
  /\ clock = 0
  /\ ttlMs \in {0, TtlMs}
  /\ verify \in {"none", "size", "hash"}
  /\ indexFile = <<WarmEntry("https://a"), WarmEntry("https://b")>>
  /\ payloads = [f \in FileNames |->
       IF f \in {FileNameOf(u, ".mp3") : u \in HttpUrls}
         THEN Some(WarmContent) ELSE Null]
  /\ mc = [p \in Callers |-> Idle]
  /\ mcOps = 0
  /\ lastWriter = "none"

\* Something outside the cache deletes a payload file or overwrites it, with
\* other bytes of the same length or with a longer content (tests, lines
\* 172-229); one payload file is damaged at a time.
Tamper(f, how) ==
  /\ UNCHANGED otherThanCache
  /\ ~IsNull(payloads[f])
  /\ \A g \in FileNames :
       IF IsNull(payloads[g]) THEN TRUE ELSE Val(payloads[g]).data # "other"
  /\ payloads' = [payloads EXCEPT ![f] =
       CASE how = "delete" -> Null
         [] how = "rewrite" -> Some([size |-> Val(@).size, data |-> "other"])
         [] how = "grow" -> Some([size |-> Val(@).size + 1, data |-> "other"])]
  /\ UNCHANGED <<clock, ttlMs, verify, indexFile, mc, mcOps, lastWriter>>

\* the puts into the directory in use all store .mp3 files
CacheWarmNext ==
  \/ Tick
  \/ \E p \in Callers, url \in Urls, size \in SrcSizes :
       PutBegin(p, url, ".mp3", size)
  \/ \E p \in Callers, url \in Urls : GetBegin(p, url)
  \/ \E p \in Callers : PutStore(p)
  \/ \E p \in Callers : GetCheck(p)
  \/ \E p \in Callers : WriteIndex(p)
  \/ \E f \in FileNames, how \in {"delete", "rewrite", "grow"} : Tamper(f, how)

(***************************************************************************)
(* The slides lock: withSlidesLock, src/unnamed/part_014 lines 1776-1797,  *)
(* around the body of extractSlidesForSource (lines 178-663).              *)
(***************************************************************************)
LockCallers == {"c1", "c2", "c3"}
SlidesDirs == {"out/vidA", "out/vidB"}

\* the steps of the extraction body, in order
BodyStages == <<"cache", "prepare", "detect", "extract", "manifest">>

LockIdle == [pc |-> "idle"]

LockInit ==
  /\ slidesLocks = [k \in SlidesDirs |-> Null]
  /\ settled = {}
  /\ lk = [c \in LockCallers |-> LockIdle]
  /\ lkCalls = 0

\* lines 1781-1788: read the previous promise of the key, announce the wait,
\* install a new promise, and wait for the previous one
LockCall(c, key) ==
  /\ UNCHANGED otherThanLock
  /\ lk[c].pc \in {"idle", "returned", "threw"}
  /\ lkCalls < MaxLockCalls
  /\ lkCalls' = lkCalls + 1
  /\ slidesLocks' = [slidesLocks EXCEPT ![key] = Some(lkCalls + 1)]
  /\ lk' = [lk EXCEPT ![c] =
       [pc |-> "waiting", key |-> key,
        previous |-> slidesLocks[key],
        current |-> lkCalls + 1,
        queued |-> ~IsNull(slidesLocks[key])]]
  /\ UNCHANGED settled

NoWait(c) == TRUE

\* await (previous ?? Promise.resolve())
PreviousSettled(c) ==
  IF IsNull(lk[c].previous) THEN TRUE ELSE Val(lk[c].previous) \in settled

\* line 1790: fn() starts
LockEnter(c) ==
  /\ UNCHANGED otherThanLock
  /\ lk[c].pc = "waiting"
  /\ PreviousSettled(c)
  /\ lk' = [lk EXCEPT ![c] = [@ EXCEPT !.pc = "body"] @@ [stage |-> 1]]
  /\ UNCHANGED <<slidesLocks, settled, lkCalls>>

\* the body goes on to its next step
BodyStep(c) ==
  /\ UNCHANGED otherThanLock
  /\ lk[c].pc = "body"
  /\ lk[c].stage < Len(BodyStages)
  /\ lk' = [lk EXCEPT ![c].stage = @ + 1]
  /\ UNCHANGED <<slidesLocks, settled, lkCalls>>

ReleaseOnReturn(c, outcome) ==
  /\ settled' = IF outcome = "returned" THEN settled \cup {lk[c].current}
                                         ELSE settled
  /\ slidesLocks' =
       [slidesLocks EXCEPT ![lk[c].key] =
          IF @ = Some(lk[c].current) THEN Null ELSE @]
  /\ lk' = [lk EXCEPT ![c] = [pc |-> outcome, key |-> @.key]]
  /\ UNCHANGED lkCalls

\* lines 1791-1796: release() and drop the map entry if it is still ours
Finally(c, outcome) ==
  /\ settled' = settled \cup {lk[c].current}
  /\ slidesLocks' =
       [slidesLocks EXCEPT ![lk[c].key] =
          IF @ = Some(lk[c].current) THEN Null ELSE @]
  /\ lk' = [lk EXCEPT ![c] = [pc |-> outcome, key |-> @.key]]
  /\ UNCHANGED lkCalls

\* the body returns: a valid cache at the first step, or the result after
\* the manifest is written
BodyReturn(c) ==
  /\ UNCHANGED otherThanLock
  /\ lk[c].pc = "body"
  /\ lk[c].stage \in {1, Len(BodyStages)}
  /\ Finally(c, "returned")

\* the body throws at any of its steps
BodyThrow(c) ==
  /\ UNCHANGED otherThanLock
  /\ lk[c].pc = "body"
  /\ Finally(c, "threw")

LockNext ==
  \/ \E c \in LockCallers, key \in SlidesDirs : LockCall(c, key)
  \/ \E c \in LockCallers : LockEnter(c)
  \/ \E c \in LockCallers : BodyStep(c)
  \/ \E c \in LockCallers : BodyReturn(c)
  \/ \E c \in LockCallers : BodyThrow(c)

(***************************************************************************)
(* The slide-extraction pipeline: the body of extractSlidesForSource,      *)
(* src/unnamed/part_014 lines 188-658, for one extraction with the         *)
(* onSlidesProgress hook installed and no valid cache.                     *)
(***************************************************************************)
P_PREPARE == 2
P_FETCH_VIDEO == 6
P_DOWNLOAD_VIDEO == 35
P_DETECT_SCENES == 60
P_EXTRACT_DOWNLOAD == 75
P_EXTRACT_FRAMES == 90
P_OCR == 99
P_FINAL == 100
THUMB_START == 90
THUMB_END == 96

SourceKinds == {"youtube", "direct"}
Stages == {"detect", "frames"}
Attempts == {1, 2}
DlPercents == {50}

\* the environments and settings the extraction runs under; the yt-dlp
\* switches mean nothing for a direct source
PxConfigs ==
  {c \in [kind : SourceKinds, extractStream : BOOLEAN,
          formatsDiffer : BOOLEAN, ocr : BOOLEAN] :
     c.kind = "direct" => (~c.extractStream /\ ~c.formatsDiffer)}

clamp(value, min, max) ==
  IF value < min THEN min ELSE IF value > max THEN max ELSE value

Max(a, b) == IF a >= b THEN a ELSE b
Min(a, b) == IF a <= b THEN a ELSE b

\* Math.round(base + span * part / whole), base an integer
Mapped(base, span, part, whole) ==
  IF whole > 0 THEN base + (2 * span * part + whole) \div (2 * whole)
  ELSE base

\* hooks.onSlidesProgress receives a text carrying this percentage
Deliver(pg, percent) ==
  [pg EXCEPT !.shown = Some(percent),
             !.decreased = IF IsNull(pg.shown) THEN @
                           ELSE @ \/ percent < Val(pg.shown)]

\* lines 188-203: the text is the label, the detail and the percentage
reportSlidesProgress(pg, label, percent, detail) ==
  LET clamped == clamp(percent, 0, 100)
      nextPercent == Max(pg.lastPercent, clamped)
      text == <<label, detail, nextPercent>>
  IN IF text = pg.lastText THEN pg
     ELSE Deliver([pg EXCEPT !.lastText = text, !.lastPercent = nextPercent],
                  nextPercent)

\* lines 511 and 1120-1136: onStatus is the hook itself
onStatus(pg, percent) == Deliver(pg, percent)

\* lines 484-494
reportFrameProgress(pg, completed, total) ==
  reportSlidesProgress(pg, "extracting frames",
    Mapped(P_DETECT_SCENES, P_EXTRACT_FRAMES - P_DETECT_SCENES, completed, total),
    <<completed, total>>)

\* lines 591-599
reportOcrProgress(pg, completed, total) ==
  reportSlidesProgress(pg, "running OCR",
    Mapped(P_OCR - 3, 3, completed, total), <<completed, total>>)

NoAttempt ==
  [started |-> FALSE, nextIndex |-> 0, completed |-> 0, running |-> {},
   rejected |-> FALSE]

NoStageLog ==
  [streamFails |-> 0, downloads |-> 0, downloaded |-> 0, retries |-> 0,
   retryFailed |-> FALSE]

PipeInit ==
  /\ pxCfg \in PxConfigs
  /\ px = [pc |-> "start", detectionUsesStream |-> FALSE,
           extractionUsesStream |-> FALSE,
           detectionCleanup |-> Null, extractionCleanup |-> Null,
           dirs |-> 0, dl |-> "none", dlDir |-> 0, dlEvents |-> 0,
           segEvents |-> 0, zero |-> FALSE, attempt |-> 0,
           fixTotal |-> 0, fixDone |-> 0, ocrTotal |-> 0, ocrDone |-> 0]
  /\ tmpDirs = {}
  /\ frames = [a \in Attempts |-> NoAttempt]
  /\ prog = [lastText |-> <<>>, lastPercent |-> 0, shown |-> Null,
             decreased |-> FALSE]
  /\ stageLog = [s \in Stages |-> NoStageLog]

\* the temp directories the finally block (lines 651-658) removes
Cleanups(p) ==
  (IF IsNull(p.extractionCleanup) THEN {} ELSE {Val(p.extractionCleanup)})
    \cup (IF IsNull(p.detectionCleanup) THEN {} ELSE {Val(p.detectionCleanup)})

\* the body throws: the finally block runs the registered cleanups
Thrown(p) == [p EXCEPT !.pc = "threw"]

\* downloadYoutubeVideo is called: fs.mkdtemp, line 703
Downloading(p, purpose) ==
  [p EXCEPT !.pc = "download", !.dl = purpose, !.dlDir = p.dirs + 1,
            !.dirs = p.dirs + 1, !.dlEvents = 0]

\* lines 321-323 and 527-529: only a YouTube stage that read a stream URL
\* falls back to a download
AlwaysFallBack(kind, usesStream) == TRUE

CanFallBack(kind, usesStream) == kind = "youtube" /\ usesStream

\* runWithConcurrency (lines 1839-1868) starts its runners
Started(total) ==
  [started |-> TRUE, nextIndex |-> Min(SlidesWorkers, total), completed |-> 0,
   running |-> 1 .. Min(SlidesWorkers, total), rejected |-> FALSE]

\* lines 239-244 and 246-257, then the await of line 260 or, for a direct
\* source, the start of scene detection (line 292)
PxPrepare ==
  /\ UNCHANGED otherThanPipe
  /\ px.pc = "start"
  /\ LET pg == reportSlidesProgress(prog, "preparing source", P_PREPARE, <<>>)
     IN IF pxCfg.kind = "youtube"
        THEN /\ px' = [px EXCEPT !.pc = "resolveDetect"]
             /\ prog' = reportSlidesProgress(pg, "fetching video",
                                             P_FETCH_VIDEO, <<>>)
        ELSE /\ px' = [px EXCEPT !.pc = "detect"]
             /\ prog' = reportSlidesProgress(pg, "detecting scenes",
                                             P_FETCH_VIDEO + 2, <<>>)
  /\ UNCHANGED <<pxCfg, tmpDirs, frames, stageLog>>

\* lines 259-287: resolveYoutubeStreamUrl for detection resolves or rejects
PxResolveDetect(ok) ==
  /\ UNCHANGED otherThanPipe
  /\ px.pc = "resolveDetect"
  /\ IF ok
     THEN /\ px' = [px EXCEPT !.pc = "detect", !.detectionUsesStream = TRUE]
          /\ prog' = reportSlidesProgress(prog, "detecting scenes",
                                          P_FETCH_VIDEO + 2, <<>>)
          /\ UNCHANGED tmpDirs
     ELSE /\ px' = Downloading(px, "detect0")
          /\ prog' = reportSlidesProgress(prog, "downloading video",
                                          P_FETCH_VIDEO, <<>>)
          /\ tmpDirs' = tmpDirs \cup {px.dirs + 1}
  /\ UNCHANGED <<pxCfg, frames, stageLog>>

ForDetection(purpose) == purpose \in {"detect0", "detectRetry", "detectZero"}

\* a "[download] NN%" line of yt-dlp (lines 720-735) reaches the onProgress
\* of the caller (lines 277-281, 338-342, 371-375, 425-429, 546-550)
DlProgress(percent) ==
  /\ UNCHANGED otherThanPipe
  /\ px.pc = "download"
  /\ px.dlEvents < MaxDlEvents
  /\ px' = [px EXCEPT !.dlEvents = @ + 1]
  /\ prog' =
       IF ForDetection(px.dl)
       THEN reportSlidesProgress(prog, "downloading video",
              Mapped(P_FETCH_VIDEO, P_DOWNLOAD_VIDEO - P_FETCH_VIDEO, percent, 100),
              <<percent>>)
       ELSE reportSlidesProgress(prog, "downloading video",
              Mapped(P_DETECT_SCENES, P_EXTRACT_DOWNLOAD - P_DETECT_SCENES, percent, 100),
              <<percent>>)
  /\ UNCHANGED <<pxCfg, tmpDirs, frames, stageLog>>

\* downloadYoutubeVideo settles (lines 715-759) and its caller goes on:
\* "failed" is yt-dlp exiting with an error or timing out, "nofile" is
\* yt-dlp leaving no video file, "ok" returns the file and its cleanup
DlDone(result) ==
  /\ UNCHANGED otherThanPipe
  /\ px.pc = "download"
  /\ UNCHANGED pxCfg
  /\ IF result = "failed"
     THEN /\ px' = Thrown(px)
          /\ tmpDirs' = tmpDirs \ Cleanups(px)
          /\ UNCHANGED <<frames, prog, stageLog>>
     ELSE IF result = "nofile"
     THEN /\ px' = Thrown(px)
          /\ tmpDirs' = (tmpDirs \ {px.dlDir}) \ Cleanups(px)
          /\ UNCHANGED <<frames, prog, stageLog>>
     ELSE IF px.dl = "detect0"
     THEN /\ px' = [px EXCEPT !.pc = "detect", !.dl = "none",
                              !.detectionCleanup = Some(px.dlDir)]
          /\ prog' = reportSlidesProgress(prog, "detecting scenes",
                                          P_FETCH_VIDEO + 2, <<>>)
          /\ UNCHANGED <<tmpDirs, frames, stageLog>>
     ELSE IF px.dl \in {"detectRetry", "detectZero"}
     THEN /\ px' = [px EXCEPT !.pc = "detect", !.dl = "none", !.segEvents = 0,
                              !.detectionCleanup = Some(px.dlDir),
                              !.detectionUsesStream = FALSE]
          /\ stageLog' =
               IF px.dl = "detectRetry"
               THEN [stageLog EXCEPT !["detect"].downloaded = @ + 1,
                                     !["detect"].retries = @ + 1]
               ELSE stageLog
          /\ UNCHANGED <<tmpDirs, frames, prog>>
     ELSE IF px.dl = "extractFormat"
     THEN /\ px' = [px EXCEPT !.pc = "select", !.dl = "none",
                              !.extractionCleanup = Some(px.dlDir),
                              !.extractionUsesStream = FALSE]
          /\ UNCHANGED <<tmpDirs, frames, prog, stageLog>>
     ELSE \* "extractRetry", lines 552-564
          /\ px' = [px EXCEPT !.pc = "frames", !.dl = "none", !.attempt = 2,
                              !.extractionCleanup = Some(px.dlDir),
                              !.extractionUsesStream = FALSE]
          /\ tmpDirs' = IF IsNull(px.extractionCleanup) THEN tmpDirs
                        ELSE tmpDirs \ {Val(px.extractionCleanup)}
          /\ frames' = [frames EXCEPT ![2] = Started(NFrames)]
          /\ stageLog' = [stageLog EXCEPT !["frames"].downloaded = @ + 1,
                                          !["frames"].retries = @ + 1]
          /\ UNCHANGED prog

\* onSegmentProgress, lines 305-313
DetectProgress ==
  /\ UNCHANGED otherThanPipe
  /\ px.pc = "detect"
  /\ px.segEvents < NSegments
  /\ px' = [px EXCEPT !.segEvents = @ + 1]
  /\ prog' = reportSlidesProgress(prog, "detecting scenes",
       Mapped(P_FETCH_VIDEO + 2, P_DETECT_SCENES - (P_FETCH_VIDEO + 2),
              px.segEvents + 1, NSegments),
       <<px.segEvents + 1, NSegments>>)
  /\ UNCHANGED <<pxCfg, tmpDirs, frames, stageLog>>

\* detect() settles, lines 315-388: it rejects ("fail") or returns some or
\* zero timestamps
DetectDone(res) ==
  /\ UNCHANGED otherThanPipe
  /\ px.pc = "detect"
  /\ UNCHANGED <<pxCfg, frames>>
  /\ IF res = "fail"
     THEN IF CanFallBack(pxCfg.kind, px.detectionUsesStream)
          THEN /\ px' = Downloading(px, "detectRetry")
               /\ prog' = reportSlidesProgress(prog, "downloading video",
                                               P_FETCH_VIDEO, <<>>)
               /\ tmpDirs' = tmpDirs \cup {px.dirs + 1}
               /\ stageLog' = [stageLog EXCEPT !["detect"].streamFails = @ + 1,
                                               !["detect"].downloads = @ + 1]
          ELSE /\ px' = Thrown(px)
               /\ tmpDirs' = tmpDirs \ Cleanups(px)
               /\ stageLog' = [stageLog EXCEPT !["detect"].retryFailed =
                                 stageLog["detect"].retries > 0]
               /\ UNCHANGED prog
     ELSE LET pg == reportSlidesProgress(prog, "detecting scenes",
                                         P_DETECT_SCENES, <<>>)
          IN IF pxCfg.kind = "youtube" /\ px.detectionUsesStream /\ res = "zero"
             THEN /\ px' = Downloading(px, "detectZero")
                  /\ prog' = reportSlidesProgress(pg, "downloading video",
                                                  P_FETCH_VIDEO, <<>>)
                  /\ tmpDirs' = tmpDirs \cup {px.dirs + 1}
                  /\ UNCHANGED stageLog
             ELSE /\ px' = [px EXCEPT !.pc = "source", !.zero = (res = "zero"),
                              !.extractionUsesStream = px.detectionUsesStream]
                  /\ prog' = pg
                  /\ UNCHANGED <<tmpDirs, stageLog>>

\* lines 389-402 and 418-424
PxSource ==
  /\ UNCHANGED otherThanPipe
  /\ px.pc = "source"
  /\ UNCHANGED <<pxCfg, frames, stageLog>>
  /\ IF pxCfg.kind = "youtube" /\ pxCfg.extractStream
     THEN /\ px' = [px EXCEPT !.pc = "resolveExtract"]
          /\ prog' = reportSlidesProgress(prog, "fetching video",
                                          P_DETECT_SCENES, <<>>)
          /\ UNCHANGED tmpDirs
     ELSE IF pxCfg.kind = "youtube" /\ pxCfg.formatsDiffer
     THEN /\ px' = Downloading(px, "extractFormat")
          /\ prog' = reportSlidesProgress(prog, "downloading video",
                                          P_DETECT_SCENES, <<>>)
          /\ tmpDirs' = tmpDirs \cup {px.dirs + 1}
     ELSE /\ px' = [px EXCEPT !.pc = "select"]
          /\ UNCHANGED <<prog, tmpDirs>>

\* lines 403-440: resolveYoutubeStreamUrl for extraction resolves or rejects
PxResolveExtract(ok) ==
  /\ UNCHANGED otherThanPipe
  /\ px.pc = "resolveExtract"
  /\ UNCHANGED <<pxCfg, frames, stageLog>>
  /\ IF ok
     THEN /\ px' = [px EXCEPT !.pc = "select", !.extractionUsesStream = TRUE]
          /\ UNCHANGED <<prog, tmpDirs>>
     ELSE IF pxCfg.formatsDiffer
     THEN /\ px' = Downloading(px, "extractFormat")
          /\ prog' = reportSlidesProgress(prog, "downloading video",
                                          P_DETECT_SCENES, <<>>)
          /\ tmpDirs' = tmpDirs \cup {px.dirs + 1}
     ELSE /\ px' = [px EXCEPT !.pc = "select"]
          /\ UNCHANGED <<prog, tmpDirs>>

\* lines 442-523: the timestamps are selected (none: the body throws) and
\* extractFrames() starts its first attempt
PxSelect(empty) ==
  /\ UNCHANGED otherThanPipe
  /\ px.pc = "select"
  /\ empty => px.zero
  /\ UNCHANGED <<pxCfg, stageLog>>
  /\ IF empty
     THEN /\ px' = Thrown(px)
          /\ tmpDirs' = tmpDirs \ Cleanups(px)
          /\ UNCHANGED <<frames, prog>>
     ELSE /\ px' = [px EXCEPT !.pc = "frames", !.attempt = 1]
          /\ frames' = [frames EXCEPT ![1] = Started(NFrames)]
          /\ prog' = reportFrameProgress(prog, 0, NFrames)
          /\ UNCHANGED tmpDirs

\* one frame task of attempt a settles inside its runner (lines 1849-1861):
\* the finally counts it and calls onProgress, then the runner takes the next
\* task or, when the task rejected, ends, which rejects the Promise.all of
\* its attempt.  When the attempt is the one the body awaits, the body goes
\* on: to the catch of lines 526-566, or to thumbnail refinement (lines
\* 1024-1137) once every runner has ended.
FrameTaskDone(a, i, ok) ==
  /\ UNCHANGED otherThanPipe
  /\ frames[a].started
  /\ i \in frames[a].running
  /\ UNCHANGED pxCfg
  /\ LET f == frames[a]
         completed == f.completed + 1
         pg == reportFrameProgress(prog, completed, NFrames)
         next == IF ok /\ f.nextIndex < NFrames THEN {f.nextIndex + 1} ELSE {}
         after == [f EXCEPT !.completed = completed,
                            !.running = (f.running \ {i}) \cup next,
                            !.nextIndex = f.nextIndex + Cardinality(next),
                            !.rejected = f.rejected \/ ~ok]
         awaited == px.pc = "frames" /\ px.attempt = a
     IN /\ frames' = [frames EXCEPT ![a] = after]
        /\ IF awaited /\ ~ok
           THEN IF CanFallBack(pxCfg.kind, px.extractionUsesStream)
                THEN /\ px' = Downloading(px, "extractRetry")
                     /\ prog' = reportSlidesProgress(pg, "downloading video",
                                                     P_DETECT_SCENES, <<>>)
                     /\ tmpDirs' = tmpDirs \cup {px.dirs + 1}
                     /\ stageLog' =
                          [stageLog EXCEPT !["frames"].streamFails = @ + 1,
                                           !["frames"].downloads = @ + 1]
                ELSE /\ px' = Thrown(px)
                     /\ tmpDirs' = tmpDirs \ Cleanups(px)
                     /\ stageLog' = [stageLog EXCEPT !["frames"].retryFailed =
                                       stageLog["frames"].retries > 0]
                     /\ prog' = pg
           ELSE IF awaited /\ after.running = {}
           THEN \E fixes \in 0 .. NFrames :
                  /\ px' = IF fixes = 0 THEN [px EXCEPT !.pc = "rename"]
                           ELSE [px EXCEPT !.pc = "thumbs",
                                           !.fixTotal = fixes, !.fixDone = 0]
                  /\ prog' = IF fixes = 0 THEN pg ELSE onStatus(pg, THUMB_START)
                  /\ UNCHANGED <<tmpDirs, stageLog>>
           ELSE /\ prog' = pg
                /\ UNCHANGED <<px, tmpDirs, stageLog>>

\* one thumbnail fix task ends (lines 1128-1134); after the last one
\* extractFramesAtTimestamps returns
ThumbDone ==
  /\ UNCHANGED otherThanPipe
  /\ px.pc = "thumbs"
  /\ LET done == px.fixDone + 1
         pg == onStatus(prog, Mapped(THUMB_START, THUMB_END - THUMB_START,
                                     done, px.fixTotal))
     IN IF done = px.fixTotal
        THEN /\ px' = [px EXCEPT !.pc = "rename", !.fixDone = done]
             /\ prog' = onStatus(pg, THUMB_END)
        ELSE /\ px' = [px EXCEPT !.fixDone = done]
             /\ prog' = pg
  /\ UNCHANGED <<pxCfg, tmpDirs, frames, stageLog>>

\* lines 575-614: the min-duration filter keeps some slides, they are
\* renamed, and OCR starts or the result is finalized
PxRename(kept) ==
  /\ UNCHANGED otherThanPipe
  /\ px.pc = "rename"
  /\ IF pxCfg.ocr
     THEN /\ px' = [px EXCEPT !.pc = "ocr", !.ocrTotal = kept, !.ocrDone = 0]
          /\ prog' = reportOcrProgress(prog, 0, kept)
     ELSE /\ px' = [px EXCEPT !.pc = "manifest"]
          /\ prog' = reportSlidesProgress(prog, "finalizing", P_FINAL - 1, <<>>)
  /\ UNCHANGED <<pxCfg, tmpDirs, frames, stageLog>>

\* one OCR task ends (lines 1876-1889 never reject); after the last one the
\* result is finalized (line 614)
OcrDone ==
  /\ UNCHANGED otherThanPipe
  /\ px.pc = "ocr"
  /\ LET done == px.ocrDone + 1
         pg == reportOcrProgress(prog, done, px.ocrTotal)
     IN IF done = px.ocrTotal
        THEN /\ px' = [px EXCEPT !.pc = "manifest", !.ocrDone = done]
             /\ prog' = reportSlidesProgress(pg, "finalizing", P_FINAL - 1, <<>>)
        ELSE /\ px' = [px EXCEPT !.ocrDone = done]
             /\ prog' = pg
  /\ UNCHANGED <<pxCfg, tmpDirs, frames, stageLog>>

\* lines 647-658: writeSlidesJson, the last progress message, and the
\* finally block
PxWriteManifest(ok) ==
  /\ UNCHANGED otherThanPipe
  /\ px.pc = "manifest"
  /\ px' = IF ok THEN [px EXCEPT !.pc = "returned"] ELSE Thrown(px)
  /\ prog' = IF ok THEN reportSlidesProgress(prog, "finalizing", P_FINAL, <<>>)
             ELSE prog
  /\ tmpDirs' = tmpDirs \ Cleanups(px)
  /\ UNCHANGED <<pxCfg, frames, stageLog>>

PipeNext ==
  \/ PxPrepare
  \/ \E ok \in BOOLEAN : PxResolveDetect(ok)
  \/ \E percent \in DlPercents : DlProgress(percent)
  \/ \E result \in {"ok", "failed", "nofile"} : DlDone(result)
  \/ DetectProgress
  \/ \E res \in {"some", "zero", "fail"} : DetectDone(res)
  \/ PxSource
  \/ \E ok \in BOOLEAN : PxResolveExtract(ok)
  \/ \E empty \in BOOLEAN : PxSelect(empty)
  \/ \E a \in Attempts, i \in 1 .. NFrames, ok \in BOOLEAN : FrameTaskDone(a, i, ok)
  \/ ThumbDone
  \/ \E kept \in 1 .. NFrames : PxRename(kept)
  \/ OcrDone
  \/ \E ok \in BOOLEAN : PxWriteManifest(ok)

(***************************************************************************)
(* The slides manifest cache: slides.json as extractSlidesForSource reads  *)
(* it (src/unnamed/part_014 lines 181-186 and 1799-1837) and as the store  *)
(* reads it (src/src/slides/store.ts).  A path is a record of its being    *)
(* absolute and its segments.                                              *)
(***************************************************************************)
AbsPath(segs) == [abs |-> TRUE, segs |-> segs]
RelPath(segs) == [abs |-> FALSE, segs |-> segs]

Cwd == <<"work">>
OutputDir == AbsPath(<<"out">>)
SourceIds == {"vidA", "vidB"}
TheSource == [sourceId |-> "vidA", kind |-> "direct", url |-> "https://v/a.mp4"]
SettingsKeys == {"s1", "s2"}
TheSettings == "s1"

\* path.normalize on the segments: "." is dropped, ".." drops the segment
\* before it
RECURSIVE Normalized(_, _)
Normalized(segs, acc) ==
  IF segs = <<>> THEN acc
  ELSE IF Head(segs) = "." THEN Normalized(Tail(segs), acc)
  ELSE IF Head(segs) = ".."
       THEN Normalized(Tail(segs),
                       IF acc = <<>> THEN acc ELSE SubSeq(acc, 1, Len(acc) - 1))
  ELSE Normalized(Tail(segs), Append(acc, Head(segs)))

\* path.join(dir, p)
Join(dir, p) == [abs |-> dir.abs, segs |-> Normalized(dir.segs \o p.segs, <<>>)]

\* store.ts line 8: path.resolve(value)
normalizePath(p) ==
  IF p.abs THEN AbsPath(Normalized(p.segs, <<>>))
  ELSE AbsPath(Normalized(Cwd \o p.segs, <<>>))

\* store.ts lines 10-12
resolveSlidesDir(outputDir, sourceId) == Join(outputDir, RelPath(<<sourceId>>))

\* store.ts lines 14-16
buildSlidesDirId(slidesDir) == <<"sha1", normalizePath(slidesDir)>>

SlidesDir == resolveSlidesDir(OutputDir, TheSource.sourceId)

RECURSIVE CommonPrefix(_, _)
CommonPrefix(a, b) ==
  IF a = <<>> \/ b = <<>> THEN 0
  ELSE IF Head(a) # Head(b) THEN 0
  ELSE 1 + CommonPrefix(Tail(a), Tail(b))

\* path.relative(root, candidate) of two resolved paths, as segments
Relative(root, candidate) ==
  LET k == CommonPrefix(root.segs, candidate.segs)
  IN [i \in 1 .. (Len(root.segs) - k) |-> ".."]
       \o SubSeq(candidate.segs, k + 1, Len(candidate.segs))

\* the segment names whose text starts with ".."
DotDotNames == {"..", "..slide_0001.png"}

\* store.ts lines 18-21 (path.relative of two absolute paths is relative)
isPathUnderRoot(root, candidate) ==
  LET rel == Relative(root, candidate)
  IN rel # <<>> /\ Head(rel) \notin DotDotNames

\* store.ts lines 23-30: <<>> for null
resolveSlideImagePath(slidesDir, imagePath) ==
  IF imagePath.segs = <<>> THEN Null
  ELSE LET resolved == IF imagePath.abs THEN imagePath
                       ELSE Join(slidesDir, imagePath)
           normalizedSlidesDir == normalizePath(slidesDir)
           normalizedResolved == normalizePath(resolved)
       IN IF ~isPathUnderRoot(normalizedSlidesDir, normalizedResolved) THEN Null
          ELSE Some(normalizedResolved)

SlideFile(k) == IF k = 1 THEN "slide_0001.png" ELSE "slide_0002.png"

\* the imagePath values a slides.json on disk may carry
RawPaths ==
  { Join(SlidesDir, RelPath(<<SlideFile(1)>>)),
    RelPath(<<SlideFile(1)>>),
    RelPath(<<"..", "vidB", SlideFile(1)>>),
    AbsPath(<<"etc", "hosts">>),
    AbsPath(<<"out", "vidA", "..", "vidB", SlideFile(1)>>),
    RelPath(<<>>) }

SlideLists == UNION {[1 .. n -> RawPaths] : n \in 1 .. MaxSlidesOnDisk}

\* the slides.json files that may lie in slidesDir when a reader runs; the
\* four settings fields are one key
Manifests ==
  [sourceId : SourceIds,
   sourceKind : SourceKinds,
   sourceUrl : {TheSource.url, "https://v/b.mp4"},
   slidesDirId : {Null, Some(buildSlidesDirId(SlidesDir)),
                  Some(buildSlidesDirId(AbsPath(<<"out", "vidB">>)))},
   slidesDir : {SlidesDir, AbsPath(<<"out", "vidB", "..", "vidA">>),
                AbsPath(<<"out", "vidB">>)},
   settings : SettingsKeys,
   slides : SlideLists]

\* the regular files there are besides the slides of slidesDir
OtherFiles ==
  { AbsPath(<<"out", "vidB", SlideFile(1)>>),
    AbsPath(<<"etc", "hosts">>),
    AbsPath(<<"work", SlideFile(1)>>) }

StoreInit ==
  /\ slidesJson \in {Null} \cup {Some(m) : m \in Manifests}
  /\ disk = OtherFiles \cup {Join(SlidesDir, RelPath(<<SlideFile(1)>>))}
  /\ sret = [by |-> "none", result |-> Null, cached |-> FALSE]

\* fs.stat(p) finds a regular file
IsFile(p) == normalizePath(p) \in disk

\* part_014 lines 1799-1837: <<>> for null
readSlidesCacheIfValid(slidesDir) ==
  IF IsNull(slidesJson) THEN Null
  ELSE LET parsed == Val(slidesJson)
       IN IF parsed.sourceId # TheSource.sourceId THEN Null
          ELSE IF parsed.sourceKind # TheSource.kind THEN Null
          ELSE IF parsed.sourceUrl # TheSource.url THEN Null
          ELSE IF parsed.slidesDir # slidesDir THEN Null
          ELSE IF parsed.settings # TheSettings THEN Null
          ELSE IF \E i \in DOMAIN parsed.slides :
                    parsed.slides[i].segs = <<>> \/ ~IsFile(parsed.slides[i])
          THEN Null
          ELSE Some(parsed)

\* store.ts lines 43-96: <<>> for null
validateSlidesCache(cached) ==
  LET expectedSlidesDir == resolveSlidesDir(OutputDir, TheSource.sourceId)
      normalizedExpectedDir == normalizePath(expectedSlidesDir)
      normalizedOutputDir == normalizePath(OutputDir)
      resolved == [i \in DOMAIN cached.slides |->
                     resolveSlideImagePath(normalizedExpectedDir, cached.slides[i])]
      expectedDirId == buildSlidesDirId(normalizedExpectedDir)
  IN IF cached.sourceId # TheSource.sourceId THEN Null
     ELSE IF cached.sourceKind # TheSource.kind THEN Null
     ELSE IF cached.sourceUrl # TheSource.url THEN Null
     ELSE IF ~isPathUnderRoot(normalizedOutputDir, normalizedExpectedDir) THEN Null
     ELSE IF normalizePath(cached.slidesDir) # normalizedExpectedDir THEN Null
     ELSE IF ~IsNull(cached.slidesDirId) /\ Val(cached.slidesDirId) # expectedDirId
     THEN Null
     ELSE IF cached.settings # TheSettings THEN Null
     ELSE IF \E i \in DOMAIN resolved :
               IF IsNull(resolved[i]) THEN TRUE ELSE ~IsFile(Val(resolved[i]))
     THEN Null
     ELSE Some([cached EXCEPT !.slidesDir = normalizedExpectedDir,
                              !.slidesDirId = IF IsNull(@) THEN Some(expectedDirId)
                                                           ELSE @,
                              !.slides = [i \in DOMAIN resolved |-> Val(resolved[i])]])

\* the slide images of slidesDir, which prepareSlidesDir removes
SlideImagesOf(slidesDir) ==
  {Join(slidesDir, RelPath(<<SlideFile(k)>>)) : k \in 1 .. MaxSlidesOnDisk}

\* part_014 lines 582 and 628-646: the result of a fresh extraction of n
\* slides
FreshResult(slidesDir, n) ==
  [sourceId |-> TheSource.sourceId, sourceKind |-> TheSource.kind,
   sourceUrl |-> TheSource.url, slidesDirId |-> Null, slidesDir |-> slidesDir,
   settings |-> TheSettings,
   slides |-> [k \in 1 .. n |-> Join(slidesDir, RelPath(<<SlideFile(k)>>))]]

\* extractSlidesForSource, part_014 lines 166-186 and 239-649: a valid
\* cache is returned, otherwise n slides are extracted and slides.json is
\* written
ExtractSlides(noCache, n) ==
  /\ UNCHANGED otherThanStore
  /\ LET cached == IF noCache THEN Null ELSE readSlidesCacheIfValid(SlidesDir)
     IN IF ~IsNull(cached)
        THEN /\ sret' = [by |-> "extract", result |-> cached, cached |-> TRUE]
             /\ UNCHANGED <<slidesJson, disk>>
        ELSE /\ disk' = (disk \ SlideImagesOf(SlidesDir))
                          \cup {Join(SlidesDir, RelPath(<<SlideFile(k)>>)) : k \in 1 .. n}
             /\ slidesJson' = Some(FreshResult(SlidesDir, n))
             /\ sret' = [by |-> "extract", cached |-> FALSE,
                         result |-> Some(FreshResult(SlidesDir, n))]

\* store.ts lines 98-120
StoreReadCache ==
  /\ UNCHANGED otherThanStore
  /\ LET result == IF IsNull(slidesJson) THEN Null
                   ELSE validateSlidesCache(Val(slidesJson))
     IN sret' = [by |-> "store", result |-> result, cached |-> ~IsNull(result)]
  /\ UNCHANGED <<slidesJson, disk>>

StoreNext ==
  \/ \E noCache \in BOOLEAN, n \in 1 .. MaxSlidesOnDisk : ExtractSlides(noCache, n)
  \/ StoreReadCache

(***************************************************************************)
(* Slide timestamps: selection, thumbnail refinement and the min-duration  *)
(* filter, src/unnamed/part_014 lines 442-468, 1024-1110, 575-579 and      *)
(* 1502-1632.  Times are counted in tenths of a second.                    *)
(***************************************************************************)
Tenths == 10
FRAME_ADJUST_RANGE_SECONDS == 10
FRAME_ADJUST_STEP_SECONDS == 2

\* detection.durationSeconds (0: ffprobe gave none) and the settings
Durations == {0, 12 * Tenths}
SceneTimes == {1 * Tenths, 3 * Tenths, 5 * Tenths, 9 * Tenths}
MinDurations == {0, 2 * Tenths, 4 * Tenths}
MaxSlidesChoices == {1, 2, 3}

RECURSIVE Ascending(_)
Ascending(S) ==
  IF S = {} THEN <<>>
  ELSE LET least == CHOOSE x \in S : \A y \in S : x <= y
       IN <<least>> \o Ascending(S \ {least})

\* detection.timestamps: the scene changes found, in time order
SceneLists ==
  {Ascending(S) : S \in {T \in SUBSET SceneTimes : Cardinality(T) <= MaxScenes}}

RECURSIVE InsertSorted(_, _)
InsertSorted(sorted, x) ==
  IF sorted = <<>> THEN <<x>>
  ELSE IF x < Head(sorted) THEN <<x>> \o sorted
  ELSE <<Head(sorted)>> \o InsertSorted(Tail(sorted), x)

\* .sort((a, b) => a - b)
RECURSIVE SortNumbers(_)
SortNumbers(s) ==
  IF s = <<>> THEN <<>>
  ELSE InsertSorted(SortNumbers(SubSeq(s, 1, Len(s) - 1)), s[Len(s)])

\* the loops of lines 1535-1540 and 1551-1557: keep a timestamp when it is
\* gap or more after the last one kept
RECURSIVE KeepSpaced(_, _, _)
KeepSpaced(ts, gap, kept) ==
  IF ts = <<>> THEN kept
  ELSE IF kept = <<>> \/ Head(ts) - kept[Len(kept)] >= gap
       THEN KeepSpaced(Tail(ts), gap, Append(kept, Head(ts)))
       ELSE KeepSpaced(Tail(ts), gap, kept)

\* lines 1524-1542; Math.max(0.1, minDurationSeconds * 0.5)
mergeTimestamps(sceneTimestamps, intervalTimestamps, minDurationSeconds) ==
  KeepSpaced(SortNumbers(sceneTimestamps \o intervalTimestamps),
             Max(1, minDurationSeconds \div 2), <<>>)

\* lines 1544-1559
filterTimestampsByMinDuration(timestamps, minDurationSeconds) ==
  IF minDurationSeconds <= 0 THEN timestamps
  ELSE KeepSpaced(SortNumbers(timestamps), minDurationSeconds, <<>>)

\* lines 1613-1632: <<>> for null
RECURSIVE Grid(_, _, _)
Grid(t, intervalSeconds, durationSeconds) ==
  IF t < durationSeconds
  THEN <<t>> \o Grid(t + intervalSeconds, intervalSeconds, durationSeconds)
  ELSE <<>>

buildIntervalTimestamps(durationSeconds, minDurationSeconds, maxSlides) ==
  IF durationSeconds <= 0 THEN Null
  ELSE LET maxCount == Max(1, maxSlides)
           targetCount == Min(maxCount,
                              Max(3, Mapped(0, 1, durationSeconds, 120 * Tenths)))
           intervalSeconds == Max(minDurationSeconds, durationSeconds \div targetCount)
       IN IF intervalSeconds <= 0 THEN Null
          ELSE Some([timestamps |-> Grid(0, intervalSeconds, durationSeconds),
                     intervalSeconds |-> intervalSeconds])

\* lines 1585-1587
RECURSIVE SkipBefore(_, _, _)
SkipBefore(sceneList, sceneIndex, bound) ==
  IF sceneIndex <= Len(sceneList) /\ sceneList[sceneIndex] < bound
  THEN SkipBefore(sceneList, sceneIndex + 1, bound)
  ELSE sceneIndex

Distance(a, b) == IF a >= b THEN a - b ELSE b - a

\* lines 1589-1599: the scene nearest to the target inside the window, the
\* earlier one of two equally near; <<>> for none
RECURSIVE Nearest(_, _, _, _, _)
Nearest(sceneList, idx, target, windowSeconds, best) ==
  IF idx > Len(sceneList) THEN best
  ELSE IF sceneList[idx] > target + windowSeconds THEN best
  ELSE IF IsNull(best)
       THEN Nearest(sceneList, idx + 1, target, windowSeconds, Some(sceneList[idx]))
  ELSE IF Distance(sceneList[idx], target) < Distance(Val(best), target)
       THEN Nearest(sceneList, idx + 1, target, windowSeconds, Some(sceneList[idx]))
  ELSE Nearest(sceneList, idx + 1, target, windowSeconds, best)

\* lines 1584-1607
RECURSIVE Pick(_, _, _, _, _, _)
Pick(targetList, sceneList, sceneIndex, windowSeconds, minDurationSeconds, picked) ==
  IF targetList = <<>> THEN picked
  ELSE LET target == Head(targetList)
           from == SkipBefore(sceneList, sceneIndex, target - windowSeconds)
           best == Nearest(sceneList, from, target, windowSeconds, Null)
           candidate == IF IsNull(best) THEN target ELSE Val(best)
           chosen == IF picked = <<>> THEN candidate
                     ELSE IF candidate - picked[Len(picked)] >= minDurationSeconds
                          THEN candidate ELSE target
       IN Pick(Tail(targetList), sceneList, from, windowSeconds,
               minDurationSeconds, Append(picked, chosen))

\* lines 1561-1611
selectTimestampTargets(targets, sceneTimestamps, minDurationSeconds, intervalSeconds) ==
  LET targetList == SortNumbers(targets)
      sceneList == filterTimestampsByMinDuration(sceneTimestamps,
                     Max(1, minDurationSeconds \div 4))
      windowSeconds == Max(2 * Tenths, Min(10 * Tenths, (intervalSeconds * 35) \div 100))
  IN Pick(targetList, sceneList, 1, windowSeconds, minDurationSeconds, <<>>)

\* slides from timestamps, numbered from 1
Numbered(ts) == [i \in 1 .. Len(ts) |-> [index |-> i, timestamp |-> ts[i]]]

Renumbered(slides) == [i \in 1 .. Len(slides) |-> [slides[i] EXCEPT !.index = i]]

KeepLatest(slides, maxSlides) ==
  IF maxSlides <= 0 \/ Len(slides) <= maxSlides THEN slides
  ELSE Renumbered(SubSeq(slides, Len(slides) - maxSlides + 1, Len(slides)))

\* lines 1739-1754
applyMaxSlidesFilter(slides, maxSlides) ==
  IF maxSlides <= 0 \/ Len(slides) <= maxSlides THEN slides
  ELSE Renumbered(SubSeq(slides, 1, maxSlides))

RECURSIVE KeepSpacedSlides(_, _, _)
KeepSpacedSlides(slides, gap, kept) ==
  IF slides = <<>> THEN kept
  ELSE IF kept = <<>> \/ Head(slides).timestamp - kept[Len(kept)].timestamp >= gap
       THEN KeepSpacedSlides(Tail(slides), gap, Append(kept, Head(slides)))
       ELSE KeepSpacedSlides(Tail(slides), gap, kept)

\* lines 1502-1522
applyMinDurationFilter(slides, minDurationSeconds) ==
  IF minDurationSeconds <= 0 THEN slides
  ELSE Renumbered(KeepSpacedSlides(slides, minDurationSeconds, <<>>))

\* lines 930-937
clampTimestamp(value, durationSeconds) ==
  IF durationSeconds > 0
  THEN clamp(value, 0, Max(0, durationSeconds - 1))
  ELSE Max(value, 0)

\* lines 1042-1049
CandidateOffsets ==
  {sign * k * FRAME_ADJUST_STEP_SECONDS * Tenths :
     sign \in {1, -1},
     k \in 1 .. (FRAME_ADJUST_RANGE_SECONDS \div FRAME_ADJUST_STEP_SECONDS)}

StampsInit ==
  /\ stCfg \in [durationSeconds : Durations, timestamps : SceneLists,
                minDurationSeconds : MinDurations, maxSlides : MaxSlidesChoices]
  /\ stPc = "detected"
  /\ stSlides = <<>>
  /\ stFixed = {}

\* lines 442-468 and 1007-1031: the timestamps are picked, spaced and
\* trimmed, and a frame is extracted at each
SelectTimestamps ==
  /\ UNCHANGED otherThanStamps
  /\ stPc = "detected"
  /\ LET interval == buildIntervalTimestamps(stCfg.durationSeconds,
                       stCfg.minDurationSeconds, stCfg.maxSlides)
         combined == mergeTimestamps(stCfg.timestamps,
                       IF IsNull(interval) THEN <<>> ELSE Val(interval).timestamps,
                       stCfg.minDurationSeconds)
         selected ==
           IF IsNull(interval) THEN combined
           ELSE IF Val(interval).timestamps = <<>> THEN combined
           ELSE selectTimestampTargets(Val(interval).timestamps, stCfg.timestamps,
                  stCfg.minDurationSeconds, Val(interval).intervalSeconds)
         spaced == filterTimestampsByMinDuration(selected, stCfg.minDurationSeconds)
         trimmed == applyMaxSlidesFilter(Numbered(spaced), stCfg.maxSlides)
     IN IF combined = <<>>
        THEN stPc' = "threw" /\ UNCHANGED stSlides
        ELSE stPc' = "extracted" /\ stSlides' = trimmed
  /\ UNCHANGED <<stCfg, stFixed>>

\* lines 1040-1110: a fix task replaces the frame of slide i by the frame
\* at an offset and moves the timestamp of the slide
RefineThumbnail(i, offsetSeconds) ==
  /\ UNCHANGED otherThanStamps
  /\ stPc = "extracted"
  /\ i \in DOMAIN stSlides
  /\ i \notin stFixed
  /\ Cardinality(stFixed) < MaxFixes
  /\ LET baseTimestamp == clampTimestamp(stSlides[i].timestamp, stCfg.durationSeconds)
         selectedTimestamp == clampTimestamp(baseTimestamp + offsetSeconds,
                                             stCfg.durationSeconds)
     IN stSlides' = [stSlides EXCEPT ![i].timestamp = selectedTimestamp]
  /\ stFixed' = stFixed \cup {i}
  /\ UNCHANGED <<stCfg, stPc>>

\* lines 575-646: the min-duration filter gives the slides of the result
FinishSlides ==
  /\ UNCHANGED otherThanStamps
  /\ stPc = "extracted"
  /\ stSlides' = applyMinDurationFilter(stSlides, stCfg.minDurationSeconds)
  /\ stPc' = "returned"
  /\ UNCHANGED <<stCfg, stFixed>>

StampsNext ==
  \/ SelectTimestamps
  \/ \E i \in 1 .. 3, offsetSeconds \in CandidateOffsets :
       RefineThumbnail(i, offsetSeconds)
  \/ FinishSlides

(***************************************************************************)
(* writeIndex and readIndex on the files of the cache directory:           *)
(* src/src/media-cache.ts lines 94-119.  A file is an inode, a directory   *)
(* entry names an inode, and a writer holds the inode it has opened.       *)
(***************************************************************************)
IxWriters == {"w1", "w2", "w3"}

\* process.pid of the process a get/put runs in: w1 and w2 are overlapping
\* operations of one process, w3 runs in another process
PidOf(w) == IF w = "w3" THEN 2 ELSE 1

IndexPath == <<"index.json">>

\* `${indexPath}.tmp-${process.pid}-${Date.now()}`
TmpPathOf(pid, now) == <<"index.json.tmp", pid, now>>

IxPaths ==
  {IndexPath} \cup {TmpPathOf(pid, t) : pid \in {1, 2}, t \in 0 .. MaxIxClock}

\* JSON.stringify(index) of a writer, as IndexLen cells that carry its name
Serialized(w, len) == [i \in 1 .. len |-> w]

\* a write of data at offset 0 of a file: the bytes beyond the data stay
WriteOver(content, data) ==
  data \o SubSeq(content, Len(data) + 1, Len(content))

IxInit ==
  ix = [now |-> 0,
        dir |-> [n \in IxPaths |-> IF n = IndexPath THEN 1 ELSE 0],
        inodes |-> <<Serialized("created", 2)>>,
        w |-> [w \in IxWriters |-> [pc |-> "idle"]],
        seen |-> Serialized("created", 2)]

\* Date.now() advances
IxTick ==
  /\ UNCHANGED otherThanIndex
  /\ ix.now < MaxIxClock
  /\ ix' = [ix EXCEPT !.now = @ + 1]

\* writeIndex, lines 116-117: choose tmpPath; fs.writeFile opens it, creating
\* it or truncating the file that is there
IxOpen(w, len) ==
  /\ UNCHANGED otherThanIndex
  /\ ix.w[w].pc = "idle"
  /\ LET tmpPath == TmpPathOf(PidOf(w), ix.now)
         exists == ix.dir[tmpPath] # 0
         fd == IF exists THEN ix.dir[tmpPath] ELSE Len(ix.inodes) + 1
     IN ix' = [ix EXCEPT
                 !.dir[tmpPath] = fd,
                 !.inodes = IF exists THEN [@ EXCEPT ![fd] = <<>>]
                                      ELSE Append(@, <<>>),
                 !.w[w] = [pc |-> "open", tmpPath |-> tmpPath, fd |-> fd,
                           data |-> Serialized(w, len)]]

\* writeIndex, line 117: fs.writeFile writes the data to the open file and
\* closes it
IxWriteFile(w) ==
  /\ UNCHANGED otherThanIndex
  /\ ix.w[w].pc = "open"
  /\ ix' = [ix EXCEPT
              !.inodes[ix.w[w].fd] = WriteOver(@, ix.w[w].data),
              !.w[w].pc = "written"]

\* writeIndex, line 118: fs.rename(tmpPath, indexPath), which throws when
\* tmpPath is not there
IxRename(w) ==
  /\ UNCHANGED otherThanIndex
  /\ ix.w[w].pc = "written"
  /\ LET tmpPath == ix.w[w].tmpPath IN
     IF ix.dir[tmpPath] = 0
       THEN ix' = [ix EXCEPT !.w[w].pc = "threw"]
       ELSE ix' = [ix EXCEPT
                     !.dir = [@ EXCEPT ![IndexPath] = ix.dir[tmpPath],
                                       ![tmpPath] = 0],
                     !.w[w].pc = "done"]

\* the process dies in the middle of its writes
IxCrash(pid) ==
  /\ UNCHANGED otherThanIndex
  /\ \E w \in IxWriters : PidOf(w) = pid /\ ix.w[w].pc \in {"open", "written"}
  /\ ix' = [ix EXCEPT
              !.w = [w \in IxWriters |->
                       IF PidOf(w) = pid /\ @[w].pc \in {"idle", "open", "written"}
                         THEN [pc |-> "crashed"] ELSE @[w]]]

\* readIndex, line 96: fs.readFile(indexPath)
IxRead ==
  /\ UNCHANGED otherThanIndex
  /\ ix' = [ix EXCEPT !.seen = ix.inodes[ix.dir[IndexPath]]]

IxNext ==
  \/ IxTick
  \/ \E w \in IxWriters, len \in 1 .. MaxIndexLen : IxOpen(w, len)
  \/ \E w \in IxWriters : IxWriteFile(w)
  \/ \E w \in IxWriters : IxRename(w)
  \/ \E pid \in {1, 2} : IxCrash(pid)
  \/ IxRead

(***************************************************************************)
(* The cost report of a run: src/unnamed/part_007 lines 173-331.  Token    *)
(* counts are <<>> for null, <<n>> for a number n >= 0 and <<-1>> for a    *)
(* number that is not finite; prices are per token, in millionths of a     *)
(* dollar per million tokens, so that the cost of a row is a whole number. *)
(***************************************************************************)
NaN == <<-1>>

\* call.usage of an LlmCall: <<>> when the provider reported none
Usages ==
  { Null,
    Some([promptTokens |-> Null, completionTokens |-> Null, totalTokens |-> Null]),
    Some([promptTokens |-> Some(0), completionTokens |-> Some(1), totalTokens |-> Some(1)]),
    Some([promptTokens |-> Some(2), completionTokens |-> Null, totalTokens |-> Some(2)]),
    Some([promptTokens |-> NaN, completionTokens |-> Some(1), totalTokens |-> Null]),
    Some([promptTokens |-> Some(2), completionTokens |-> Some(1), totalTokens |-> Some(3)]) }

LlmCalls ==
  [provider : {"openai"}, model : {"m1"}, usage : Usages]
    \cup [provider : {"xai"}, model : {"m2"}, usage : Usages]

\* the pricing argument: none, or prices for model m1 and for Firecrawl
Pricings ==
  { Null,
    Some([llm |-> [m \in {"m1"} |->
                     [inputUsdPer1MTokens |-> 1, outputUsdPer1MTokens |-> 2]],
          firecrawlUsdPerRequest |-> Some(3),
          apifyUsdPerRequest |-> Null]) }

TokenColumns == {"promptTokens", "completionTokens", "totalTokens"}

\* typeof value === 'number' && Number.isFinite(value)
IsFiniteNumber(value) == IF IsNull(value) THEN FALSE ELSE value # NaN

SumOrZero(values) ==
  Some(SumSeq([i \in 1 .. Len(SelectSeq(values, IsFiniteNumber)) |->
                 Val(SelectSeq(values, IsFiniteNumber)[i])]))

\* lines 210-220
sumOrNull(values) ==
  LET numbers == SelectSeq(values, IsFiniteNumber)
  IN IF numbers = <<>> THEN Null
     ELSE Some(SumSeq([i \in 1 .. Len(numbers) |-> Val(numbers[i])]))

\* lines 222-237
estimateLlmUsd(pricing, model, promptTokens, completionTokens) ==
  IF IsNull(pricing) THEN Null
  ELSE IF model \notin DOMAIN Val(pricing).llm THEN Null
  ELSE IF IsNull(promptTokens) \/ IsNull(completionTokens) THEN Null
  ELSE Some(Val(promptTokens) * Val(pricing).llm[model].inputUsdPer1MTokens
              + Val(completionTokens) * Val(pricing).llm[model].outputUsdPer1MTokens)

\* call.usage?.[column] ?? null
UsageOf(call, column) ==
  IF IsNull(call.usage) THEN Null ELSE Val(call.usage)[column]

\* the keys of llmMap, in the order in which the calls set them
RECURSIVE MapKeys(_, _)
MapKeys(llmCalls, keys) ==
  IF llmCalls = <<>> THEN keys
  ELSE LET key == <<Head(llmCalls).provider, Head(llmCalls).model>>
       IN MapKeys(Tail(llmCalls),
                  IF \E i \in DOMAIN keys : keys[i] = key THEN keys
                  ELSE Append(keys, key))

\* lines 239-331
buildRunCostReport(llmCalls, firecrawlRequests, apifyRequests, pricing) ==
  LET keys == MapKeys(llmCalls, <<>>)
      callsOf(key) ==
        SelectSeq(llmCalls, LAMBDA call : <<call.provider, call.model>> = key)
      column(key, name) ==
        sumOrNull([i \in 1 .. Len(callsOf(key)) |-> UsageOf(callsOf(key)[i], name)])
      llm == [k \in DOMAIN keys |->
                [provider |-> keys[k][1],
                 model |-> keys[k][2],
                 calls |-> Len(callsOf(keys[k])),
                 promptTokens |-> column(keys[k], "promptTokens"),
                 completionTokens |-> column(keys[k], "completionTokens"),
                 totalTokens |-> column(keys[k], "totalTokens"),
                 estimatedUsd |->
                   estimateLlmUsd(pricing, keys[k][2],
                                  column(keys[k], "promptTokens"),
                                  column(keys[k], "completionTokens"))]]
      serviceUsd(price, requests) ==
        IF IsFiniteNumber(price) THEN Some(Val(price) * requests) ELSE Null
      firecrawlEstimatedUsd ==
        IF IsNull(pricing) THEN Null
        ELSE serviceUsd(Val(pricing).firecrawlUsdPerRequest, firecrawlRequests)
      apifyEstimatedUsd ==
        IF IsNull(pricing) THEN Null
        ELSE serviceUsd(Val(pricing).apifyUsdPerRequest, apifyRequests)
  IN [llm |-> llm,
      services |->
        [firecrawl |-> [requests |-> firecrawlRequests,
                        estimatedUsd |-> firecrawlEstimatedUsd],
         apify |-> [requests |-> apifyRequests,
                    estimatedUsd |-> apifyEstimatedUsd]],
      totalEstimatedUsd |->
        sumOrNull(<<sumOrNull([k \in DOMAIN llm |-> llm[k].estimatedUsd]),
                    firecrawlEstimatedUsd, apifyEstimatedUsd>>)]

CostInit ==
  cost = [llmCalls |-> <<>>, firecrawlRequests |-> 0, apifyRequests |-> 0,
          report |-> Null]

\* an LLM call of the run is booked
AddLlmCall(call) ==
  /\ UNCHANGED otherThanCost
  /\ IsNull(cost.report)
  /\ Len(cost.llmCalls) < MaxLlmCalls
  /\ cost' = [cost EXCEPT !.llmCalls = Append(@, call)]

\* a Firecrawl or Apify request of the run is counted
CountRequest(service) ==
  /\ UNCHANGED otherThanCost
  /\ IsNull(cost.report)
  /\ cost[service] < MaxRequests
  /\ cost' = [cost EXCEPT ![service] = @ + 1]

\* the report of the run is built
BuildReport(pricing) ==
  /\ UNCHANGED otherThanCost
  /\ IsNull(cost.report)
  /\ cost' = [cost EXCEPT !.report =
       Some(buildRunCostReport(cost.llmCalls, cost.firecrawlRequests,
                               cost.apifyRequests, pricing))]

CostNext ==
  \/ \E call \in LlmCalls : AddLlmCall(call)
  \/ \E service \in {"firecrawlRequests", "apifyRequests"} : CountRequest(service)
  \/ \E pricing \in Pricings : BuildReport(pricing)

(***************************************************************************)
(* The URL flow from its extract to its end, steps 3 to 10 of the run flow *)
(* orchestrator (runUrlFlow of src/run/flows/url/flow.ts, called by        *)
(* src/tests/run.url-flow.slides-done.test.ts): the slides pipeline runs   *)
(* beside the summary and reports through the onSlidesDone hook.           *)
(***************************************************************************)
Runs == {"r1", "r2"}

\* what onSlidesDone is given when the slides pipeline has settled
SlidesDoneResult(ok) ==
  IF ok THEN [ok |-> TRUE, error |-> Null]
        ELSE [ok |-> FALSE, error |-> Some("slides failed")]

SilentOnFailure(ok) == IF ok THEN <<SlidesDoneResult(ok)>> ELSE <<>>

\* the calls of the hook that the settling of the pipeline makes
slidesDoneCalls(ok) == <<SlidesDoneResult(ok)>>

FlowInit ==
  flow = [r \in Runs |->
            [stage |-> "idle", slides |-> FALSE, extractOnly |-> FALSE,
             pipeline |-> "none", onSlidesDone |-> <<>>]]

\* steps 1 to 4: the run is started and its content is extracted
StartRun(r, slides, extractOnly) ==
  /\ UNCHANGED otherThanFlow
  /\ flow[r].stage = "idle"
  /\ flow' = [flow EXCEPT ![r].stage = "extracted", ![r].slides = slides,
                          ![r].extractOnly = extractOnly]

\* step 5: the slides pipeline is spawned if slides are requested, and the
\* run goes on without waiting for it
SpawnSlides(r) ==
  /\ UNCHANGED otherThanFlow
  /\ flow[r].stage = "extracted"
  /\ flow' = [flow EXCEPT ![r].stage = "spawned",
                          ![r].pipeline =
                            IF flow[r].slides THEN "running" ELSE "none"]

FailedWithSlides(run, ok) ==
  [run EXCEPT !.pipeline = IF ok THEN "resolved" ELSE "rejected",
              !.onSlidesDone = @ \o slidesDoneCalls(ok),
              !.stage = IF ok THEN @ ELSE "failed"]

\* the run after its slides pipeline has settled: the hook is called, and
\* the rejection is caught there
SlidesSettled(run, ok) ==
  [run EXCEPT !.pipeline = IF ok THEN "resolved" ELSE "rejected",
              !.onSlidesDone = @ \o slidesDoneCalls(ok)]

\* extractSlidesForSource resolves or rejects, and the hook is called
SlidesSettle(r, ok) ==
  /\ UNCHANGED otherThanFlow
  /\ flow[r].pipeline = "running"
  /\ flow' = [flow EXCEPT ![r] = SlidesSettled(flow[r], ok)]

\* step 6: with --extract-only the extracted content is emitted, no summary
EmitExtract(r) ==
  /\ UNCHANGED otherThanFlow
  /\ flow[r].stage = "spawned"
  /\ flow[r].extractOnly
  /\ flow' = [flow EXCEPT ![r].stage = "done"]

\* steps 7 to 10: the summary succeeds or fails
Summarize(r, ok) ==
  /\ UNCHANGED otherThanFlow
  /\ flow[r].stage = "spawned"
  /\ ~flow[r].extractOnly
  /\ flow' = [flow EXCEPT ![r].stage = IF ok THEN "done" ELSE "failed"]

FlowNext ==
  \/ \E r \in Runs, slides, extractOnly \in BOOLEAN :
       StartRun(r, slides, extractOnly)
  \/ \E r \in Runs : SpawnSlides(r)
  \/ \E r \in Runs, ok \in BOOLEAN : SlidesSettle(r, ok)
  \/ \E r \in Runs : EmitExtract(r)
  \/ \E r \in Runs, ok \in BOOLEAN : Summarize(r, ok)

(***************************************************************************)
(* The daemon recovery of the browser extension (createDaemonRecovery of   *)
(* apps/chrome-extension/src/lib/daemon-recovery.ts, called by             *)
(* src/tests/chrome.daemon-recovery.test.ts).                              *)
(***************************************************************************)
PageUrls == {"https://example.com", "https://example.org"}

ErrorMessages ==
  {"Failed to fetch", "NetworkError when attempting to fetch resource.",
   "ECONNREFUSED 127.0.0.1", "401 Unauthorized"}

\* the network-level failures: fetch failure, network error, connection
\* refused
isDaemonUnreachableError(message) ==
  message \in {"Failed to fetch",
               "NetworkError when attempting to fetch resource.",
               "ECONNREFUSED 127.0.0.1"}

RecoveryInit ==
  rec = [pendingUrl |-> Null, lastReady |-> Null, failures |-> 0,
         check |-> Null]

RecoverAgain(pendingUrl, lastReady, isReady, currentUrlMatches, isIdle) ==
  IF IsNull(pendingUrl) \/ ~isReady \/ ~isIdle \/ lastReady = Some(TRUE)
    THEN [result |-> FALSE, pendingUrl |-> pendingUrl]
    ELSE [result |-> currentUrlMatches,
          pendingUrl |-> IF currentUrlMatches THEN pendingUrl ELSE Null]

RecoverWhileBusy(pendingUrl, lastReady, isReady, currentUrlMatches, isIdle) ==
  IF IsNull(pendingUrl) \/ ~isReady \/ lastReady = Some(TRUE)
    THEN [result |-> FALSE, pendingUrl |-> pendingUrl]
    ELSE [result |-> currentUrlMatches, pendingUrl |-> Null]

\* the result of a recovery check and the pending URL it leaves
maybeRecover(pendingUrl, lastReady, isReady, currentUrlMatches, isIdle) ==
  IF IsNull(pendingUrl) \/ ~isReady \/ ~isIdle \/ lastReady = Some(TRUE)
    THEN [result |-> FALSE, pendingUrl |-> pendingUrl]
    ELSE [result |-> currentUrlMatches, pendingUrl |-> Null]

\* a request to the daemon fails with an error; recordFailure(url) if the
\* daemon was unreachable
RequestFailed(url, message) ==
  /\ UNCHANGED otherThanRecovery
  /\ rec.failures < MaxFailures
  /\ rec' = IF isDaemonUnreachableError(message)
              THEN [rec EXCEPT !.failures = @ + 1, !.pendingUrl = Some(url),
                               !.lastReady = Some(FALSE), !.check = Null]
              ELSE [rec EXCEPT !.failures = @ + 1, !.check = Null]

\* updateStatus(isReady)
UpdateStatus(isReady) ==
  /\ UNCHANGED otherThanRecovery
  /\ rec' = [rec EXCEPT !.lastReady = Some(isReady), !.check = Null]

\* maybeRecover({isReady, currentUrlMatches, isIdle})
MaybeRecover(isReady, currentUrlMatches, isIdle) ==
  /\ UNCHANGED otherThanRecovery
  /\ LET r == maybeRecover(rec.pendingUrl, rec.lastReady, isReady,
                           currentUrlMatches, isIdle)
     IN rec' = [rec EXCEPT
                  !.pendingUrl = r.pendingUrl,
                  !.check = Some([isReady |-> isReady,
                                  currentUrlMatches |-> currentUrlMatches,
                                  isIdle |-> isIdle,
                                  pendingBefore |-> rec.pendingUrl,
                                  result |-> r.result])]

RecoveryNext ==
  \/ \E url \in PageUrls, message \in ErrorMessages :
       RequestFailed(url, message)
  \/ \E isReady \in BOOLEAN : UpdateStatus(isReady)
  \/ \E isReady, currentUrlMatches, isIdle \in BOOLEAN :
       MaybeRecover(isReady, currentUrlMatches, isIdle)

(***************************************************************************)
(* One call of generateTextWithModelId (src/unnamed/part_010 lines         *)
(* 230-363) or of streamTextWithModelId (lines 365-515).  A text is the    *)
(* sequence of its characters.                                             *)
(***************************************************************************)
Providers == {"xai", "google", "anthropic", "openai"}

Texts == {<<>>, <<" ", " ", " ">>, <<" ", "\n">>, <<"o", "k">>, <<" ", "o">>}

Chunks == {<<" ">>, <<"o">>}

\* the errors of a request: one that the provider answers with an access
\* status, and any other
RequestErrors == {"access denied", "server error"}

normalizeAnthropicModelAccessError(error) ==
  IF error = "access denied" THEN Some("Anthropic API rejected model")
                             ELSE Null

\* what the catch block throws for the error it caught
Rethrown(provider, error) ==
  IF provider = "anthropic" /\ ~IsNull(normalizeAnthropicModelAccessError(error))
    THEN Val(normalizeAnthropicModelAccessError(error))
    ELSE IF error = "AbortError" THEN "LLM request timed out" ELSE error

LlmInit ==
  llmCall = [kind |-> "none", pc |-> "idle", provider |-> "openai",
         apiKey |-> FALSE, timer |-> "none", aborted |-> FALSE,
         overdue |-> FALSE, requests |-> 0, text |-> <<>>, error |-> Null]

\* the call is made: the controller and its timer are set up, and the call
\* awaits the import of the SDK
LlmBegin(kind, provider, apiKey) ==
  /\ UNCHANGED otherThanLlm
  /\ llmCall.pc = "idle"
  /\ llmCall' = [llmCall EXCEPT !.kind = kind, !.pc = "importing",
                        !.provider = provider, !.apiKey = apiKey,
                        !.timer = "armed"]

\* timeoutMs have passed since the call was made: the timer, if it is still
\* armed, runs controller.abort()
Deadline ==
  /\ UNCHANGED otherThanLlm
  /\ llmCall.pc # "idle"
  /\ ~llmCall.overdue
  /\ llmCall' = [llmCall EXCEPT !.overdue = TRUE,
                        !.timer = IF @ = "armed" THEN "fired" ELSE @,
                        !.aborted = (llmCall.timer = "armed")]

\* generateTextWithModelId after the import: a missing key throws, else the
\* one request of the call is sent
GenerateRequest ==
  /\ UNCHANGED otherThanLlm
  /\ llmCall.kind = "generate"
  /\ llmCall.pc = "importing"
  /\ llmCall' = IF ~llmCall.apiKey
              THEN [llmCall EXCEPT !.pc = "thrown", !.timer = "cleared",
                      !.error = Some(Rethrown(llmCall.provider, "Missing API key"))]
              ELSE [llmCall EXCEPT !.pc = "requesting", !.requests = @ + 1]

\* the request resolves: its text is returned as it is
GenerateReply(text) ==
  /\ UNCHANGED otherThanLlm
  /\ llmCall.pc = "requesting"
  /\ ~llmCall.aborted
  /\ llmCall' = [llmCall EXCEPT !.pc = "returned", !.timer = "cleared",
                        !.text = text]

\* the request rejects, with an error of the provider or, once the
\* controller has aborted, with an AbortError
GenerateReject(error) ==
  /\ UNCHANGED otherThanLlm
  /\ llmCall.pc = "requesting"
  /\ (error = "AbortError") = llmCall.aborted
  /\ llmCall' = [llmCall EXCEPT !.pc = "thrown", !.timer = "cleared",
                        !.error = Some(Rethrown(llmCall.provider, error))]

\* streamTextWithModelId after the import: a missing key throws, else
\* streamText is called and its textStream returned; the finally block
\* clears the timer as the call returns
StreamCreate ==
  /\ UNCHANGED otherThanLlm
  /\ llmCall.kind = "stream"
  /\ llmCall.pc = "importing"
  /\ llmCall' = IF ~llmCall.apiKey
              THEN [llmCall EXCEPT !.pc = "thrown", !.timer = "cleared",
                      !.error = Some(Rethrown(llmCall.provider, "Missing API key"))]
              ELSE [llmCall EXCEPT !.pc = "streaming", !.timer = "cleared",
                               !.requests = @ + 1]

\* the consumer reads a chunk of textStream
StreamYield(chunk) ==
  /\ UNCHANGED otherThanLlm
  /\ llmCall.pc = "streaming"
  /\ ~llmCall.aborted
  /\ Len(llmCall.text) < MaxChunks
  /\ llmCall' = [llmCall EXCEPT !.text = @ \o chunk]

\* textStream ends
StreamEnd ==
  /\ UNCHANGED otherThanLlm
  /\ llmCall.pc = "streaming"
  /\ ~llmCall.aborted
  /\ llmCall' = [llmCall EXCEPT !.pc = "ended"]

\* the read of textStream fails: the stream of a provider breaks, or the
\* controller had aborted before streamText was called
StreamReadFails(error) ==
  /\ UNCHANGED otherThanLlm
  /\ llmCall.pc = "streaming"
  /\ (error = "AbortError") = llmCall.aborted
  /\ llmCall' = [llmCall EXCEPT !.pc = "readFailed", !.error = Some(error)]

LlmNext ==
  \/ \E kind \in {"generate", "stream"}, provider \in Providers,
        apiKey \in BOOLEAN : LlmBegin(kind, provider, apiKey)
  \/ Deadline
  \/ GenerateRequest
  \/ \E text \in Texts : GenerateReply(text)
  \/ \E error \in RequestErrors \cup {"AbortError"} : GenerateReject(error)
  \/ StreamCreate
  \/ \E chunk \in Chunks : StreamYield(chunk)
  \/ StreamEnd
  \/ \E error \in RequestErrors \cup {"AbortError"} : StreamReadFails(error)

(***************************************************************************)
(* The summary of a run, steps 7, 8 and 10 of the run flow orchestrator    *)
(* and its auto-mode fallback (runCli of src/run.ts, called by the tests   *)
(* of src/unnamed/part_007 lines 56-171 and of                             *)
(* src/tests/cli.google.streaming-fallback.test.ts lines 141-203).         *)
(***************************************************************************)
ModelIds == {"google/gemini-3-flash-preview", "openai/gpt-5-mini"}

\* the candidates of a run: the one model of --model <id>, or the list of
\* the matching rule of --model auto
CandidateLists ==
  {<<m>> : m \in ModelIds}
    \cup {<<c[1], c[2]>> : c \in {d \in ModelIds \X ModelIds : d[1] # d[2]}}

InputTooLarge == "Input token count exceeds model cap"

CallWhateverTheSize(hasKey, inputTokens, cap) ==
  IF ~hasKey THEN "skipped" ELSE "called"

\* what becomes of the candidate in turn before any request is made for it
Attempt(hasKey, inputTokens, cap) ==
  IF ~hasKey THEN "skipped"
  ELSE IF inputTokens > cap THEN "refused"
  ELSE "called"

\* the error of the candidates that is surfaced when all have failed: the
\* last one that is more than a missing key, else the last one
Surfaced(tried) ==
  LET real == {k \in DOMAIN tried : tried[k].outcome # "skipped"}
      last == IF real = {}
                THEN Len(tried)
                ELSE CHOOSE k \in real : \A j \in real : j <= k
  IN CASE tried[last].outcome = "skipped" -> "Missing API key"
       [] tried[last].outcome = "refused" -> InputTooLarge
       [] OTHER -> "boom"

GiveUp(run, outcome) ==
  LET tried == Append(run.tried, [model |-> run.candidates[run.i],
                                  outcome |-> outcome])
  IN [run EXCEPT !.tried = tried, !.pc = "failed",
                 !.error = Some(Surfaced(tried))]

\* the candidate in turn has failed: on to the next one, or the run fails
Advance(run, outcome) ==
  LET tried == Append(run.tried, [model |-> run.candidates[run.i],
                                  outcome |-> outcome])
  IN IF run.i < Len(run.candidates)
       THEN [run EXCEPT !.tried = tried, !.i = @ + 1, !.pc = "trying"]
       ELSE [run EXCEPT !.tried = tried, !.pc = "failed",
                        !.error = Some(Surfaced(tried))]

SummaryInit ==
  summ = [pc |-> "idle", auto |-> FALSE, candidates |-> <<>>, keys |-> {},
          caps |-> [m \in ModelIds |-> 1], inputTokens |-> 1, i |-> 1,
          tried |-> <<>>, error |-> Null]

\* the run has its content and its candidates
StartSummary(auto, candidates, keys, caps, inputTokens) ==
  /\ UNCHANGED otherThanSummary
  /\ summ.pc = "idle"
  /\ ~auto => Len(candidates) = 1
  /\ summ' = [summ EXCEPT !.pc = "trying", !.auto = auto,
                          !.candidates = candidates, !.keys = keys,
                          !.caps = caps, !.inputTokens = inputTokens]

\* the candidate in turn: skipped without credentials, refused when the
\* input is larger than its cap, else the LLM call for it is made
TryCandidate ==
  /\ UNCHANGED otherThanSummary
  /\ summ.pc = "trying"
  /\ LET m == summ.candidates[summ.i]
         outcome == Attempt(m \in summ.keys, summ.inputTokens, summ.caps[m])
     IN summ' = IF outcome = "called"
                  THEN [summ EXCEPT !.pc = "calling"]
                  ELSE Advance(summ, outcome)

\* the LLM call returns a summary, or its request fails
CallReturns(ok) ==
  /\ UNCHANGED otherThanSummary
  /\ summ.pc = "calling"
  /\ summ' = IF ok
               THEN [summ EXCEPT
                       !.pc = "done",
                       !.tried = Append(@, [model |-> summ.candidates[summ.i],
                                            outcome |-> "ok"])]
               ELSE Advance(summ, "errored")

SummaryNext ==
  \/ \E auto \in BOOLEAN, candidates \in CandidateLists,
        keys \in SUBSET ModelIds, caps \in [ModelIds -> 1..MaxInputTokens],
        inputTokens \in 1..(MaxInputTokens + 1) :
       StartSummary(auto, candidates, keys, caps, inputTokens)
  \/ TryCandidate
  \/ \E ok \in BOOLEAN : CallReturns(ok)

(***************************************************************************)
(* Scene detection: resolveSlidesWorkers, buildSegments and                *)
(* detectSlideTimestamps, src/unnamed/part_014 lines 42-48, 1245-1263 and  *)
(* 790-894.  Thresholds are counted in hundredths, the value of the        *)
(* SLIDES_WORKERS variable in tenths; the starts and durations of the      *)
(* segments of a video are counted in 1/n seconds, n the segment count.    *)
(***************************************************************************)
DEFAULT_SLIDES_WORKERS == 8

\* SLIDES_WORKERS: unset, empty, not a number, or a number (in tenths)
WorkerSettings ==
  {<<"unset">>, <<"empty">>, <<"NaN">>}
    \cup {<<"number", v>> : v \in {-10, 0, 4, 5, 10, 25, 80, 164, 165, 1000}}

VideoDurations == {<<>>, <<0>>, <<30>>, <<60>>, <<61>>, <<90>>, <<120>>, <<150>>,
                   <<960>>, <<1000>>}

SceneThresholds == {5, 6, 9, 10, 11, 20, 30}

\* Math.round of a number of tenths
RoundTenths(v) == (v + 5) \div 10

resolveSlidesWorkers(raw) ==
  IF raw[1] \in {"unset", "empty", "NaN"} THEN DEFAULT_SLIDES_WORKERS
  ELSE IF raw[2] <= 0 THEN DEFAULT_SLIDES_WORKERS
  ELSE Max(1, Min(16, RoundTenths(raw[2])))

\* the segments, as <<start, duration>> in 1/count seconds
buildSegments(durationSeconds, workers) ==
  IF IsNull(durationSeconds) \/ workers <= 1
    THEN [count |-> 1,
          segments |-> <<[start |-> 0,
                          duration |-> IF IsNull(durationSeconds)
                                         THEN 0 ELSE Val(durationSeconds)]>>]
  ELSE IF Val(durationSeconds) <= 0
    THEN [count |-> 1, segments |-> <<[start |-> 0, duration |-> 0]>>]
  ELSE
    LET d == Val(durationSeconds)
        clampedWorkers == Max(1, Min(16, workers))
        segmentCount == Min(clampedWorkers, (d + 59) \div 60)
        segmentDuration == d
    IN [count |-> segmentCount,
        segments |->
          [k \in 1..segmentCount |->
             LET start == (k - 1) * segmentDuration
                 remaining == d * segmentCount - start
             IN [start |-> start,
                 duration |-> IF k = segmentCount THEN remaining
                                                  ELSE segmentDuration]]]

HalfThreshold(threshold) == (threshold + 1) \div 2

\* Math.max(0.05, roundThreshold(effectiveThreshold * 0.5))
fallbackThreshold(threshold) == Max(5, (threshold + 1) \div 2)

DetectInit ==
  det = [pc |-> "idle", durationSeconds |-> Null, workers |-> 1,
         split |-> [count |-> 1, segments |-> <<>>], passes |-> <<>>,
         effectiveThreshold |-> 5]

\* the video is probed, the threshold chosen, the segments built and the
\* first detection started
DetectStart(raw, durationSeconds, chosenThreshold) ==
  /\ UNCHANGED otherThanDetect
  /\ det.pc = "idle"
  /\ det' = [det EXCEPT !.pc = "base", !.durationSeconds = durationSeconds,
               !.workers = resolveSlidesWorkers(raw),
               !.split = buildSegments(durationSeconds,
                                       resolveSlidesWorkers(raw)),
               !.effectiveThreshold = chosenThreshold]

\* the first detection returns; with no timestamp and another threshold to
\* fall back to, the second detection is started
BasePass(found) ==
  /\ UNCHANGED otherThanDetect
  /\ det.pc = "base"
  /\ LET passes == Append(det.passes, [threshold |-> det.effectiveThreshold,
                                       found |-> found])
         retry == ~found
                    /\ fallbackThreshold(det.effectiveThreshold)
                         # det.effectiveThreshold
     IN det' = [det EXCEPT !.passes = passes,
                           !.pc = IF retry THEN "retry" ELSE "done"]

\* the second detection returns
RetryPass(found) ==
  /\ UNCHANGED otherThanDetect
  /\ det.pc = "retry"
  /\ LET fallback == fallbackThreshold(det.effectiveThreshold)
     IN det' = [det EXCEPT
                  !.passes = Append(@, [threshold |-> fallback,
                                        found |-> found]),
                  !.effectiveThreshold = IF found THEN fallback ELSE @,
                  !.pc = "done"]

DetectNext ==
  \/ \E raw \in WorkerSettings, durationSeconds \in VideoDurations,
        chosenThreshold \in SceneThresholds :
       DetectStart(raw, durationSeconds, chosenThreshold)
  \/ \E found \in BOOLEAN : BasePass(found)
  \/ \E found \in BOOLEAN : RetryPass(found)

(***************************************************************************)
(* The frame tasks of extractFramesAtTimestamps and the OCR tasks of       *)
(* runOcrOnSlides under runWithConcurrency, and the slides they hand on:   *)
(* src/unnamed/part_014 lines 1007-1034, 1839-1868 and 1870-1891.          *)
(***************************************************************************)
\* timestamps[index] of the call, and the output path of a task
TimestampOf(index) == 10 * index

OutputPathOf(index) == <<"slide_", index, ".png">>

SortByIndexDescending(results) ==
  [k \in 1..Len(results) |->
     CHOOSE r \in {results[j] : j \in DOMAIN results} :
       Cardinality({j \in DOMAIN results : results[j].index > r.index})
         = k - 1]

\* results.sort((a, b) => a.index - b.index), the indices being distinct
sortByIndex(results) ==
  [k \in 1..Len(results) |->
     CHOOSE r \in {results[j] : j \in DOMAIN results} :
       Cardinality({j \in DOMAIN results : results[j].index < r.index})
         = k - 1]

\* runWithConcurrency starts min(concurrency, tasks.length) runners
RunnersStarted(t, stage, total) ==
  [t EXCEPT !.stage = stage, !.total = total,
            !.nextIndex = Min(t.workers, total),
            !.running = 1..Min(t.workers, total),
            !.results = [k \in 1..total |-> Null]]

\* a runner has the result of task `current` and takes the next task
TaskResolved(t, current, value) ==
  [t EXCEPT !.results[current] = Some(value),
            !.running = IF t.nextIndex < t.total
                          THEN (@ \ {current}) \cup {t.nextIndex + 1}
                          ELSE @ \ {current},
            !.nextIndex = IF @ < t.total THEN @ + 1 ELSE @]

TasksInit ==
  par = [stage |-> "idle", workers |-> 1, total |-> 0, nextIndex |-> 0,
         running |-> {}, results |-> <<>>, now |-> 0, slides |-> <<>>,
         manifest |-> Null]

\* extractFramesAtTimestamps for `total` timestamps
FramesStart(workers, total) ==
  /\ UNCHANGED otherThanTasks
  /\ par.stage = "idle"
  /\ par' = RunnersStarted([par EXCEPT !.workers = workers], "frames", total)

\* the frame task of a running index resolves; after the last one the
\* results are filtered, sorted by index and made the slides
FrameTaskResolves(current) ==
  /\ UNCHANGED otherThanTasks
  /\ par.stage = "frames"
  /\ current \in par.running
  /\ LET after == TaskResolved([par EXCEPT !.now = @ + 1], current,
                     [index |-> current, timestamp |-> TimestampOf(current),
                      imagePath |-> OutputPathOf(current),
                      imageVersion |-> par.now + 1, ocrText |-> Null])
     IN par' = IF after.running # {}
                 THEN after
                 ELSE [after EXCEPT
                         !.stage = "extracted",
                         !.slides = sortByIndex([k \in 1..after.total |->
                                                   Val(after.results[k])])]

\* a frame task rejects: the call throws
FrameTaskRejects(current) ==
  /\ UNCHANGED otherThanTasks
  /\ par.stage = "frames"
  /\ current \in par.running
  /\ par' = [par EXCEPT !.stage = "threw", !.running = @ \ {current}]

\* runOcrOnSlides(slides)
OcrStart ==
  /\ UNCHANGED otherThanTasks
  /\ par.stage = "extracted"
  /\ par' = RunnersStarted(par, "ocr", Len(par.slides))

\* the OCR task of a running slide returns the slide with its text, or
\* with an empty text when tesseract fails; after the last one the results
\* are sorted by index
OcrTaskResolves(current, ok) ==
  /\ UNCHANGED otherThanTasks
  /\ par.stage = "ocr"
  /\ current \in par.running
  /\ LET slide == par.slides[current]
         after == TaskResolved(par, current,
                     [slide EXCEPT !.ocrText =
                        Some(IF ok THEN <<"text of", slide.imagePath>>
                                   ELSE <<>>)])
     IN par' = IF after.running # {}
                 THEN after
                 ELSE [after EXCEPT
                         !.stage = "recognized",
                         !.slides = sortByIndex([k \in 1..after.total |->
                                                   Val(after.results[k])])]

\* writeSlidesJson
WriteSlides ==
  /\ UNCHANGED otherThanTasks
  /\ par.stage \in {"extracted", "recognized"}
  /\ par' = [par EXCEPT !.stage = "written", !.manifest = Some(par.slides)]

TasksNext ==
  \/ \E workers \in 1..SlidesWorkers, total \in 1..NFrames :
       FramesStart(workers, total)
  \/ \E current \in 1..NFrames : FrameTaskResolves(current)
  \/ \E current \in 1..NFrames : FrameTaskRejects(current)
  \/ OcrStart
  \/ \E current \in 1..NFrames, ok \in BOOLEAN : OcrTaskResolves(current, ok)
  \/ WriteSlides

(***************************************************************************)
(* resolveInputTarget: src/unnamed/part_016 lines 47-84.  An input is a    *)
(* sequence of pieces of text, each a scheme prefix or a part of a URL;    *)
(* existsSync is the set of inputs that name a file that exists.           *)
(***************************************************************************)
Pieces == {"https://", "http://", "file:///", "slack:", "a.com", "?u="}

HttpPrefixes == {"https://", "http://"}

Inputs ==
  UNION {[1 .. n -> Pieces] : n \in 0 .. MaxPieces}

\* the paths of the file system that hold a file
FileSystems == {{}, {<<"a.com">>}, {<<"https://", "a.com">>}}

\* new URL(normalized).protocol, or none when the constructor throws: an
\* http(s) URL needs a host, any text after another scheme parses
protocolOf(normalized) ==
  IF normalized = <<>> THEN Null
  ELSE IF Head(normalized) \in HttpPrefixes
    THEN IF Len(normalized) >= 2 /\ normalized[2] # "?u="
           THEN Some(IF Head(normalized) = "https://" THEN "https:" ELSE "http:")
           ELSE Null
  ELSE IF Head(normalized) = "file:///" THEN Some("file:")
  ELSE IF Head(normalized) = "slack:" THEN Some("slack:")
  ELSE Null

firstIndexOf(normalized, prefix) ==
  IF \E i \in DOMAIN normalized : normalized[i] = prefix
    THEN CHOOSE i \in DOMAIN normalized :
           /\ normalized[i] = prefix
           /\ \A j \in DOMAIN normalized : normalized[j] = prefix => j >= i
    ELSE 0

\* normalized.lastIndexOf(prefix), counted from 1; 0 when there is none
lastIndexOf(normalized, prefix) ==
  IF \E i \in DOMAIN normalized : normalized[i] = prefix
    THEN CHOOSE i \in DOMAIN normalized :
           /\ normalized[i] = prefix
           /\ \A j \in DOMAIN normalized : normalized[j] = prefix => j <= i
    ELSE 0

Rejected(message) == [kind |-> "error", message |-> message]

RECURSIVE resolveInputTarget(_, _)
resolveInputTarget(normalized, files) ==
  IF normalized = <<>> THEN Rejected("Missing input")
  ELSE IF normalized \in files
    THEN [kind |-> "file", filePath |-> normalized]
  ELSE LET protocol == protocolOf(normalized)
           idx == Max(lastIndexOf(normalized, "https://"),
                      lastIndexOf(normalized, "http://"))
       IN IF IsNull(protocol) THEN Rejected("Invalid URL or file path")
          ELSE IF Val(protocol) \notin {"http:", "https:", "file:"} /\ idx >= 1
            THEN resolveInputTarget(SubSeq(normalized, idx, Len(normalized)),
                                    files)
          ELSE IF Val(protocol) = "file:"
            THEN [kind |-> "file", filePath |-> Tail(normalized)]
          ELSE IF Val(protocol) \notin {"http:", "https:"}
            THEN Rejected("Only HTTP and HTTPS URLs can be summarized")
          ELSE [kind |-> "url", url |-> normalized]

TargetInit == tgt = [raw |-> Null, files |-> {}, result |-> Null]

\* resolveInputTarget(raw) in a file system
ResolveTarget(raw, files) ==
  /\ UNCHANGED otherThanTarget
  /\ IsNull(tgt.raw)
  /\ tgt' = [raw |-> Some(raw), files |-> files,
             result |-> Some(resolveInputTarget(raw, files))]

TargetNext ==
  \E raw \in Inputs, files \in FileSystems : ResolveTarget(raw, files)

(***************************************************************************)
(* resolveOutputLanguage and LANGUAGE_ALIASES: src/unnamed/part_015 lines  *)
(* 10-120.  A string is the sequence of its characters.                    *)
(***************************************************************************)
LowerCase ==
  <<"a", "b", "c", "d", "e", "f", "g", "h", "i", "j", "k", "l", "m",
    "n", "o", "p", "q", "r", "s", "t", "u", "v", "w", "x", "y", "z">>

UpperCase ==
  <<"A", "B", "C", "D", "E", "F", "G", "H", "I", "J", "K", "L", "M",
    "N", "O", "P", "Q", "R", "S", "T", "U", "V", "W", "X", "Y", "Z">>

DigitChars == {"0", "1", "2", "3", "4", "5", "6", "7", "8", "9"}

toLowerCase(c) ==
  IF \E i \in DOMAIN UpperCase : UpperCase[i] = c
    THEN LowerCase[CHOOSE i \in DOMAIN UpperCase : UpperCase[i] = c]
    ELSE c

toUpperCase(c) ==
  IF \E i \in DOMAIN LowerCase : LowerCase[i] = c
    THEN UpperCase[CHOOSE i \in DOMAIN LowerCase : LowerCase[i] = c]
    ELSE c

\* the table, one row for each key: <<key, tag, label>>
LANGUAGE_ALIASES ==
  {
    <<<<"a", "u", "t", "o">>,
      <<"a", "u", "t", "o">>,
      <<"a", "u", "t", "o">>>>,
    <<<<"e", "n">>,
      <<"e", "n">>,
      <<"E", "n", "g", "l", "i", "s", "h">>>>,
    <<<<"e", "n", "-", "u", "s">>,
      <<"e", "n", "-", "U", "S">>,
      <<"E", "n", "g", "l", "i", "s", "h">>>>,
    <<<<"e", "n", "-", "g", "b">>,
      <<"e", "n", "-", "G", "B">>,
      <<"E", "n", "g", "l", "i", "s", "h">>>>,
    <<<<"e", "n", "g", "l", "i", "s", "h">>,
      <<"e", "n">>,
      <<"E", "n", "g", "l", "i", "s", "h">>>>,
    <<<<"d", "e">>,
      <<"d", "e">>,
      <<"G", "e", "r", "m", "a", "n">>>>,
    <<<<"d", "e", "-", "d", "e">>,
      <<"d", "e", "-", "D", "E">>,
      <<"G", "e", "r", "m", "a", "n">>>>,
    <<<<"g", "e", "r", "m", "a", "n">>,
      <<"d", "e">>,
      <<"G", "e", "r", "m", "a", "n">>>>,
    <<<<"d", "e", "u", "t", "s", "c", "h">>,
      <<"d", "e">>,
      <<"G", "e", "r", "m", "a", "n">>>>,
    <<<<"e", "s">>,
      <<"e", "s">>,
      <<"S", "p", "a", "n", "i", "s", "h">>>>,
    <<<<"s", "p", "a", "n", "i", "s", "h">>,
      <<"e", "s">>,
      <<"S", "p", "a", "n", "i", "s", "h">>>>,
    <<<<"e", "s", "p", "a", "n", "o", "l">>,
      <<"e", "s">>,
      <<"S", "p", "a", "n", "i", "s", "h">>>>,
    <<<<"e", "s", "-", "e", "s">>,
      <<"e", "s", "-", "E", "S">>,
      <<"S", "p", "a", "n", "i", "s", "h">>>>,
    <<<<"e", "s", "-", "m", "x">>,
      <<"e", "s", "-", "M", "X">>,
      <<"S", "p", "a", "n", "i", "s", "h">>>>,
    <<<<"f", "r">>,
      <<"f", "r">>,
      <<"F", "r", "e", "n", "c", "h">>>>,
    <<<<"f", "r", "e", "n", "c", "h">>,
      <<"f", "r">>,
      <<"F", "r", "e", "n", "c", "h">>>>,
    <<<<"i", "t">>,
      <<"i", "t">>,
      <<"I", "t", "a", "l", "i", "a", "n">>>>,
    <<<<"i", "t", "a", "l", "i", "a", "n">>,
      <<"i", "t">>,
      <<"I", "t", "a", "l", "i", "a", "n">>>>,
    <<<<"p", "t">>,
      <<"p", "t">>,
      <<"P", "o", "r", "t", "u", "g", "u", "e", "s", "e">>>>,
    <<<<"p", "o", "r", "t", "u", "g", "u", "e", "s", "e">>,
      <<"p", "t">>,
      <<"P", "o", "r", "t", "u", "g", "u", "e", "s", "e">>>>,
    <<<<"p", "t", "-", "b", "r">>,
      <<"p", "t", "-", "B", "R">>,
      <<"P", "o", "r", "t", "u", "g", "u", "e", "s", "e", " ", "(", "B", "r", "a", "z", "i", "l", ")">>>>,
    <<<<"p", "t", "-", "p", "t">>,
      <<"p", "t", "-", "P", "T">>,
      <<"P", "o", "r", "t", "u", "g", "u", "e", "s", "e", " ", "(", "P", "o", "r", "t", "u", "g", "a", "l", ")">>>>,
    <<<<"n", "l">>,
      <<"n", "l">>,
      <<"D", "u", "t", "c", "h">>>>,
    <<<<"d", "u", "t", "c", "h">>,
      <<"n", "l">>,
      <<"D", "u", "t", "c", "h">>>>,
    <<<<"s", "v">>,
      <<"s", "v">>,
      <<"S", "w", "e", "d", "i", "s", "h">>>>,
    <<<<"s", "w", "e", "d", "i", "s", "h">>,
      <<"s", "v">>,
      <<"S", "w", "e", "d", "i", "s", "h">>>>,
    <<<<"n", "o">>,
      <<"n", "o">>,
      <<"N", "o", "r", "w", "e", "g", "i", "a", "n">>>>,
    <<<<"n", "o", "r", "w", "e", "g", "i", "a", "n">>,
      <<"n", "o">>,
      <<"N", "o", "r", "w", "e", "g", "i", "a", "n">>>>,
    <<<<"d", "a">>,
      <<"d", "a">>,
      <<"D", "a", "n", "i", "s", "h">>>>,
    <<<<"d", "a", "n", "i", "s", "h">>,
      <<"d", "a">>,
      <<"D", "a", "n", "i", "s", "h">>>>,
    <<<<"f", "i">>,
      <<"f", "i">>,
      <<"F", "i", "n", "n", "i", "s", "h">>>>,
    <<<<"f", "i", "n", "n", "i", "s", "h">>,
      <<"f", "i">>,
      <<"F", "i", "n", "n", "i", "s", "h">>>>,
    <<<<"p", "l">>,
      <<"p", "l">>,
      <<"P", "o", "l", "i", "s", "h">>>>,
    <<<<"p", "o", "l", "i", "s", "h">>,
      <<"p", "l">>,
      <<"P", "o", "l", "i", "s", "h">>>>,
    <<<<"c", "s">>,
      <<"c", "s">>,
      <<"C", "z", "e", "c", "h">>>>,
    <<<<"c", "z", "e", "c", "h">>,
      <<"c", "s">>,
      <<"C", "z", "e", "c", "h">>>>,
    <<<<"t", "r">>,
      <<"t", "r">>,
      <<"T", "u", "r", "k", "i", "s", "h">>>>,
    <<<<"t", "u", "r", "k", "i", "s", "h">>,
      <<"t", "r">>,
      <<"T", "u", "r", "k", "i", "s", "h">>>>,
    <<<<"r", "u">>,
      <<"r", "u">>,
      <<"R", "u", "s", "s", "i", "a", "n">>>>,
    <<<<"r", "u", "s", "s", "i", "a", "n">>,
      <<"r", "u">>,
      <<"R", "u", "s", "s", "i", "a", "n">>>>,
    <<<<"u", "k">>,
      <<"u", "k">>,
      <<"U", "k", "r", "a", "i", "n", "i", "a", "n">>>>,
    <<<<"u", "k", "r", "a", "i", "n", "i", "a", "n">>,
      <<"u", "k">>,
      <<"U", "k", "r", "a", "i", "n", "i", "a", "n">>>>,
    <<<<"z", "h">>,
      <<"z", "h">>,
      <<"C", "h", "i", "n", "e", "s", "e">>>>,
    <<<<"c", "h", "i", "n", "e", "s", "e">>,
      <<"z", "h">>,
      <<"C", "h", "i", "n", "e", "s", "e">>>>,
    <<<<"z", "h", "-", "c", "n">>,
      <<"z", "h", "-", "C", "N">>,
      <<"C", "h", "i", "n", "e", "s", "e", " ", "(", "S", "i", "m", "p", "l", "i", "f", "i", "e", "d", ")">>>>,
    <<<<"z", "h", "-", "h", "a", "n", "s">>,
      <<"z", "h", "-", "H", "a", "n", "s">>,
      <<"C", "h", "i", "n", "e", "s", "e", " ", "(", "S", "i", "m", "p", "l", "i", "f", "i", "e", "d", ")">>>>,
    <<<<"z", "h", "-", "t", "w">>,
      <<"z", "h", "-", "T", "W">>,
      <<"C", "h", "i", "n", "e", "s", "e", " ", "(", "T", "r", "a", "d", "i", "t", "i", "o", "n", "a", "l", ")">>>>,
    <<<<"z", "h", "-", "h", "a", "n", "t">>,
      <<"z", "h", "-", "H", "a", "n", "t">>,
      <<"C", "h", "i", "n", "e", "s", "e", " ", "(", "T", "r", "a", "d", "i", "t", "i", "o", "n", "a", "l", ")">>>>,
    <<<<"j", "a">>,
      <<"j", "a">>,
      <<"J", "a", "p", "a", "n", "e", "s", "e">>>>,
    <<<<"j", "a", "p", "a", "n", "e", "s", "e">>,
      <<"j", "a">>,
      <<"J", "a", "p", "a", "n", "e", "s", "e">>>>,
    <<<<"k", "o">>,
      <<"k", "o">>,
      <<"K", "o", "r", "e", "a", "n">>>>,
    <<<<"k", "o", "r", "e", "a", "n">>,
      <<"k", "o">>,
      <<"K", "o", "r", "e", "a", "n">>>>,
    <<<<"a", "r">>,
      <<"a", "r">>,
      <<"A", "r", "a", "b", "i", "c">>>>,
    <<<<"a", "r", "a", "b", "i", "c">>,
      <<"a", "r">>,
      <<"A", "r", "a", "b", "i", "c">>>>,
    <<<<"h", "i">>,
      <<"h", "i">>,
      <<"H", "i", "n", "d", "i">>>>,
    <<<<"h", "i", "n", "d", "i">>,
      <<"h", "i">>,
      <<"H", "i", "n", "d", "i">>>> }

AliasKeys == {row[1] : row \in LANGUAGE_ALIASES}

\* String.prototype.trim
RECURSIVE trimStart(_)
trimStart(s) ==
  IF s # <<>> /\ Head(s) = " " THEN trimStart(Tail(s)) ELSE s

RECURSIVE trimEnd(_)
trimEnd(s) ==
  IF s # <<>> /\ s[Len(s)] = " " THEN trimEnd(SubSeq(s, 1, Len(s) - 1)) ELSE s

trim(s) == trimEnd(trimStart(s))

\* NORMALIZE_PATTERN, /[^a-z0-9-]+/g: a character outside a-z, 0-9 and -
Unsafe(c) ==
  /\ \A i \in DOMAIN LowerCase : LowerCase[i] # c
  /\ c \notin DigitChars
  /\ c # "-"

IsDash(c) == c = "-"

\* replaceAll of every run of characters of a class by one "-"
RECURSIVE DashForRuns(_, _, _)
DashForRuns(s, InClass(_), inRun) ==
  IF s = <<>> THEN <<>>
  ELSE IF InClass(Head(s))
    THEN (IF inRun THEN <<>> ELSE <<"-">>) \o DashForRuns(Tail(s), InClass, TRUE)
    ELSE <<Head(s)>> \o DashForRuns(Tail(s), InClass, FALSE)

\* lines 105-110
compactOf(normalized) ==
  LET lower == [i \in DOMAIN normalized |-> toLowerCase(normalized[i])]
      dashed == [i \in DOMAIN lower |-> IF lower[i] = "_" THEN "-" ELSE lower[i]]
      safe == DashForRuns(dashed, Unsafe, FALSE)
      single == DashForRuns(safe, IsDash, FALSE)
      headless == IF single # <<>> /\ Head(single) = "-" THEN Tail(single)
                  ELSE single
  IN IF headless # <<>> /\ headless[Len(headless)] = "-"
       THEN SubSeq(headless, 1, Len(headless) - 1)
       ELSE headless

\* value.split(/[\s-]+/g) with the empty words left out
RECURSIVE WordsOf(_, _)
WordsOf(s, word) ==
  IF s = <<>> THEN (IF word = <<>> THEN <<>> ELSE <<word>>)
  ELSE IF Head(s) \in {" ", "-"}
    THEN (IF word = <<>> THEN <<>> ELSE <<word>>) \o WordsOf(Tail(s), <<>>)
    ELSE WordsOf(Tail(s), Append(word, Head(s)))

RECURSIVE JoinWords(_)
JoinWords(words) ==
  IF words = <<>> THEN <<>>
  ELSE IF Len(words) = 1 THEN Head(words)
  ELSE Head(words) \o <<" ">> \o JoinWords(Tail(words))

\* lines 90-99
titleCaseAscii(value) ==
  LET words == WordsOf(value, <<>>)
  IN IF words = <<>> THEN <<"E", "n", "g", "l", "i", "s", "h">>
     ELSE JoinWords([w \in DOMAIN words |->
            [i \in DOMAIN words[w] |->
               IF i = 1 THEN toUpperCase(words[w][i])
                        ELSE toLowerCase(words[w][i])]])

\* lines 101-120
resolveOutputLanguage(raw) ==
  LET normalized == trim(raw)
      compact == compactOf(normalized)
  IN IF normalized = <<>> THEN [tag |-> <<"a", "u", "t", "o">>,
                                label |-> <<"a", "u", "t", "o">>]
     ELSE IF compact \in AliasKeys
       THEN LET known == CHOOSE row \in LANGUAGE_ALIASES : row[1] = compact
            IN [tag |-> known[2], label |-> known[3]]
     ELSE [tag |-> IF compact # <<>> THEN SubSeq(compact, 1, Min(32, Len(compact)))
                   ELSE <<"e", "n">>,
           label |-> LET title == titleCaseAscii(normalized)
                     IN SubSeq(title, 1, Min(48, Len(title)))]

\* what is given as the language: the keys of the table, and other texts
LanguageInputs ==
  AliasKeys \cup
    { <<>>, <<" ", "E", "N", " ">>, <<"p", "t", "_", "B", "R">>,
      <<"K", "l", "i", "n", "g", "o", "n">>,
      <<"o", "l", "d", "-", "n", "o", "r", "s", "e">>, <<"-", "-">> }

LanguageInit == lang = [raw |-> Null, first |-> Null, second |-> Null]

\* resolveOutputLanguage(raw)
ResolveLanguage(raw) ==
  /\ UNCHANGED otherThanLanguage
  /\ IsNull(lang.raw)
  /\ lang' = [lang EXCEPT !.raw = Some(raw),
                          !.first = Some(resolveOutputLanguage(raw))]

\* resolveOutputLanguage of the label of the result
ResolveLabel ==
  /\ UNCHANGED otherThanLanguage
  /\ ~IsNull(lang.first)
  /\ IsNull(lang.second)
  /\ lang' = [lang EXCEPT !.second =
                Some(resolveOutputLanguage(Val(lang.first).label))]

LanguageNext ==
  \/ \E raw \in LanguageInputs : ResolveLanguage(raw)
  \/ ResolveLabel

(***************************************************************************)
(* The files of slidesDir during one extraction: prepareSlidesDir, the     *)
(* frame tasks and the thumbnail candidates of extractFramesAtTimestamps,  *)
(* applyMinDurationFilter, renameSlidesWithTimestamps and writeSlidesJson, *)
(* src/unnamed/part_014 lines 523-650, 675-688, 1007-1137, 1502-1522 and   *)
(* 1756-1775.                                                              *)
(***************************************************************************)
\* slide_000N.png, slide_000N_alt.png, slide_000N_T.00s.png, slides.json
\* and a file that is none of these
FrameFile(index) == [kind |-> "frame", index |-> index, timestamp |-> 0]

AltFile(index) == [kind |-> "alt", index |-> index, timestamp |-> 0]

NamedFile(index, timestamp) ==
  [kind |-> "named", index |-> index, timestamp |-> timestamp]

ManifestFile == [kind |-> "slides.json", index |-> 0, timestamp |-> 0]

NotesFile == [kind |-> "notes.txt", index |-> 0, timestamp |-> 0]

\* entry.startsWith('slide_') && entry.endsWith('.png')
IsSlideImage(entry) == entry.kind \in {"frame", "alt", "named"}

\* what an earlier run may have left in the directory
EarlierEntries ==
  SUBSET {NamedFile(1, TimestampOf(1)), FrameFile(MaxDirSlides + 1),
          ManifestFile, NotesFile}

\* lines 675-688: the slide images and slides.json are removed
prepareSlidesDir(entries) ==
  {entry \in entries : ~IsSlideImage(entry) /\ entry # ManifestFile}

\* the outcomes of one thumbnail candidate, lines 1059-1098
CandidateOutcomes == {"better", "worse", "noQuality", "failed"}

DirInit ==
  sdir = [pc |-> "idle", total |-> 0, attempt |-> 1, files |-> {},
          slides |-> <<>>,
          stragglers |-> {}, needs |-> {}, candidates |-> <<>>,
          removing |-> {}, manifest |-> Null]

\* lines 241 and 442-468: the extraction starts in a directory with
\* these entries, and `total` timestamps are selected
PrepareDir(entries, total) ==
  /\ UNCHANGED otherThanDir
  /\ sdir.pc = "idle"
  /\ sdir' = [sdir EXCEPT !.pc = "prepared", !.total = total,
                          !.files = prepareSlidesDir(entries)]

\* lines 523-566: the first attempt, on the stream URL, fails after the
\* tasks of `wrote` have written their frames and while those of `running`
\* are under way; the video is downloaded and the directory prepared again
FirstAttemptFails(wrote, running) ==
  /\ UNCHANGED otherThanDir
  /\ sdir.pc = "prepared"
  /\ sdir.attempt = 1
  /\ wrote \cup running \subseteq 1 .. sdir.total
  /\ wrote \cap running = {}
  /\ sdir' = [sdir EXCEPT
       !.attempt = 2,
       !.stragglers = running,
       !.files = prepareSlidesDir(@ \cup {FrameFile(k) : k \in wrote})]

\* a task of the failed attempt ends, with its frame written or not
StragglerEnds(index, wrote) ==
  /\ UNCHANGED otherThanDir
  /\ index \in sdir.stragglers
  /\ sdir' = [sdir EXCEPT
       !.stragglers = @ \ {index},
       !.files = IF wrote THEN @ \cup {FrameFile(index)} ELSE @]

\* lines 1007-1039: the frame tasks have all written their frames, and the
\* slides of `needs` are to be refined
FramesExtracted(needs) ==
  /\ UNCHANGED otherThanDir
  /\ sdir.pc = "prepared"
  /\ needs \subseteq 1 .. sdir.total
  /\ sdir' = [sdir EXCEPT
       !.pc = "refine",
       !.files = @ \cup {FrameFile(k) : k \in 1 .. sdir.total},
       !.slides = [k \in 1 .. sdir.total |->
                     [index |-> k, timestamp |-> TimestampOf(k),
                      imagePath |-> FrameFile(k)]],
       !.needs = needs,
       !.candidates = [k \in 1 .. sdir.total |-> 0]]

\* lines 1059-1098: one candidate of the fix task of a slide: ffmpeg writes
\* slide_000N_alt.png, which then replaces the frame, is removed, or, when
\* the candidate has no quality, is left where it is
CandidateDone(index, outcome) ==
  /\ UNCHANGED otherThanDir
  /\ sdir.pc = "refine"
  /\ index \in sdir.needs
  /\ sdir.candidates[index] < MaxCandidates
  /\ sdir' = [sdir EXCEPT
       !.candidates[index] = @ + 1,
       !.files = IF outcome = "noQuality" THEN @ \cup {AltFile(index)}
                 ELSE @ \ {AltFile(index)},
       !.slides[index].timestamp =
          IF outcome = "better" THEN @ + FRAME_ADJUST_STEP_SECONDS ELSE @]

\* lines 575-583 and 1502-1522, 1756-1775: the slides of `dropped` are too
\* close to the one before, their rm is started and not awaited; the slides
\* kept are numbered again and their files renamed
FilterAndRename(dropped) ==
  /\ UNCHANGED otherThanDir
  /\ sdir.pc = "refine"
  /\ \A k \in sdir.needs : sdir.candidates[k] = MaxCandidates
  /\ dropped \subseteq 2 .. Len(sdir.slides)
  /\ LET keptAt == SortNumbers(Ascending(DOMAIN sdir.slides \ dropped))
         renamed == [i \in DOMAIN keptAt |->
                       [index |-> i,
                        timestamp |-> sdir.slides[keptAt[i]].timestamp,
                        imagePath |->
                          NamedFile(i, sdir.slides[keptAt[i]].timestamp)]]
     IN sdir' = [sdir EXCEPT
          !.pc = "renamed",
          !.removing = {sdir.slides[k].imagePath : k \in dropped},
          !.slides = renamed,
          !.files = (@ \ {sdir.slides[keptAt[i]].imagePath : i \in DOMAIN keptAt})
                      \cup {renamed[i].imagePath : i \in DOMAIN renamed}]

\* an rm that applyMinDurationFilter started comes to its end
RemoveDone(entry) ==
  /\ UNCHANGED otherThanDir
  /\ entry \in sdir.removing
  /\ sdir' = [sdir EXCEPT !.removing = @ \ {entry}, !.files = @ \ {entry}]

\* lines 626-650: slides.json is written and the extraction returns
ManifestWritten ==
  /\ UNCHANGED otherThanDir
  /\ sdir.pc = "renamed"
  /\ sdir' = [sdir EXCEPT
       !.pc = "returned",
       !.files = @ \cup {ManifestFile},
       !.manifest = Some({sdir.slides[i].imagePath : i \in DOMAIN sdir.slides})]

DirNext ==
  \/ \E entries \in EarlierEntries, total \in 1 .. MaxDirSlides :
       PrepareDir(entries, total)
  \/ \E wrote, running \in SUBSET (1 .. MaxDirSlides) :
       FirstAttemptFails(wrote, running)
  \/ \E index \in 1 .. MaxDirSlides, wrote \in BOOLEAN :
       StragglerEnds(index, wrote)
  \/ \E needs \in SUBSET (1 .. MaxDirSlides) : FramesExtracted(needs)
  \/ \E index \in 1 .. MaxDirSlides, outcome \in CandidateOutcomes :
       CandidateDone(index, outcome)
  \/ \E dropped \in SUBSET (1 .. MaxDirSlides) : FilterAndRename(dropped)
  \/ \E entry \in {FrameFile(k) : k \in 1 .. MaxDirSlides} : RemoveDone(entry)
  \/ ManifestWritten

(***************************************************************************)
(* Hover summaries of the browser extension:                               *)
(* src/apps/chrome-extension/src/entrypoints/hover.content.ts, the timer   *)
(* of scheduleHover, handleHover and the pointer listeners (lines 169-366),*)
(* with hoverSummaries switched on and a token set.                        *)
(***************************************************************************)
Links == {"a", "b"}

\* one call of handleHover: its anchor, where it stands and whether its
\* AbortController was aborted
NewRun(anchor) == [anchor |-> anchor, pc |-> "settings", aborted |-> FALSE]

HoverInit ==
  hov = [pointer |-> "none",
         loading |-> TRUE,
         settingsLoaded |-> FALSE,
         hoverTimer |-> Null,
         activeAnchor |-> Null,
         abortController |-> Null,
         tooltip |-> Null,
         cache |-> {},
         runs |-> <<>>]

clearHoverTimer(h) == [h EXCEPT !.hoverTimer = Null]

abortActive(h) ==
  IF IsNull(h.abortController) THEN h
  ELSE [h EXCEPT !.runs[Val(h.abortController)].aborted = TRUE,
                 !.abortController = Null]

\* hideTooltip removes dataset.visible
hideTooltip(h) == [h EXCEPT !.tooltip = Null]

clearActive(h) ==
  hideTooltip([abortActive(clearHoverTimer(h)) EXCEPT !.activeAnchor = Null])

\* text is "status" (Summarizing..., an error message) or "summary"
showTooltip(h, anchor, text) ==
  [h EXCEPT !.tooltip = Some([anchor |-> anchor, text |-> text])]

\* handleHover, lines 239-283, from the settings to the fetch: the run
\* becomes the active one, a cached summary is shown at once, else the
\* status text is shown, the active request is aborted and a new one sent
handleHover(h, i) ==
  LET anchor == h.runs[i].anchor
      active == [h EXCEPT !.activeAnchor = Some(anchor)]
  IN IF anchor \in h.cache
       THEN [showTooltip(active, anchor, "summary") EXCEPT
               !.runs[i].pc = "ended"]
       ELSE [abortActive(showTooltip(active, anchor, "status")) EXCEPT
               !.abortController = Some(i), !.runs[i].pc = "fetch"]

\* loadSettings of main() resolves (line 175)
InitialSettings ==
  /\ UNCHANGED otherThanHover
  /\ hov.loading
  /\ hov' = [hov EXCEPT !.loading = FALSE, !.settingsLoaded = TRUE]

\* pointerover, lines 348-355, the pointer coming onto a link
PointerOver(anchor) ==
  /\ UNCHANGED otherThanHover
  /\ hov.pointer = "none"
  /\ Len(hov.runs) < MaxHovers
  /\ LET over == [hov EXCEPT !.pointer = anchor]
     IN hov' = IF over.activeAnchor = Some(anchor) THEN over
               ELSE [clearActive(over) EXCEPT !.hoverTimer = Some(anchor)]

\* pointerout, lines 357-362, the pointer leaving the link for the page
PointerOut ==
  /\ UNCHANGED otherThanHover
  /\ hov.pointer # "none"
  /\ LET out == [hov EXCEPT !.pointer = "none"]
     IN hov' = IF IsNull(out.activeAnchor) THEN out ELSE clearActive(out)

\* visibilitychange to hidden, lines 364-366
HiddenTab ==
  /\ UNCHANGED otherThanHover
  /\ clearActive(hov) # hov
  /\ hov' = clearActive(hov)

\* the timer of scheduleHover fires, lines 231-234: handleHover starts and
\* runs to its first await
TimerFires ==
  /\ UNCHANGED otherThanHover
  /\ ~IsNull(hov.hoverTimer)
  /\ LET called == [hov EXCEPT !.hoverTimer = Null,
                               !.runs = Append(@, NewRun(Val(hov.hoverTimer)))]
     IN hov' = IF called.settingsLoaded
                 THEN handleHover(called, Len(called.runs))
                 ELSE called

\* await refreshSettings() of handleHover resolves (line 238)
SettingsRead(i) ==
  /\ UNCHANGED otherThanHover
  /\ hov.runs[i].pc = "settings"
  /\ hov' = handleHover([hov EXCEPT !.settingsLoaded = TRUE], i)

\* both fetches answered (lines 268-303), the event stream is open
Responds(i) ==
  /\ UNCHANGED otherThanHover
  /\ hov.runs[i].pc = "fetch"
  /\ ~hov.runs[i].aborted
  /\ hov' = [hov EXCEPT !.runs[i].pc = "stream"]

\* a chunk event, lines 306-321
Chunk(i) ==
  /\ UNCHANGED otherThanHover
  /\ hov.runs[i].pc = "stream"
  /\ ~hov.runs[i].aborted
  /\ hov' = IF hov.activeAnchor # Some(hov.runs[i].anchor)
              THEN [hov EXCEPT !.runs[i].pc = "ended"]
              ELSE showTooltip(hov, hov.runs[i].anchor, "summary")

\* the done event, lines 306-308 and 322-335
StreamDone(i) ==
  /\ UNCHANGED otherThanHover
  /\ hov.runs[i].pc = "stream"
  /\ ~hov.runs[i].aborted
  /\ hov' = IF hov.activeAnchor # Some(hov.runs[i].anchor)
              THEN [hov EXCEPT !.runs[i].pc = "ended"]
              ELSE [showTooltip(hov, hov.runs[i].anchor, "summary") EXCEPT
                      !.cache = @ \cup {hov.runs[i].anchor},
                      !.runs[i].pc = "ended"]

\* the aborted request rejects (or the loop sees signal.aborted, line 307):
\* the catch shows nothing, lines 336-337
Aborted(i) ==
  /\ UNCHANGED otherThanHover
  /\ hov.runs[i].pc \in {"fetch", "stream"}
  /\ hov.runs[i].aborted
  /\ hov' = [hov EXCEPT !.runs[i].pc = "ended"]

\* the request fails or the stream sends an error event, lines 336-345
Fails(i) ==
  /\ UNCHANGED otherThanHover
  /\ hov.runs[i].pc \in {"fetch", "stream"}
  /\ ~hov.runs[i].aborted
  /\ hov' = IF hov.activeAnchor = Some(hov.runs[i].anchor)
              THEN [showTooltip(hov, hov.runs[i].anchor, "status") EXCEPT
                      !.runs[i].pc = "ended"]
              ELSE [hov EXCEPT !.runs[i].pc = "ended"]

HoverNext ==
  \/ InitialSettings
  \/ \E anchor \in Links : PointerOver(anchor)
  \/ PointerOut
  \/ HiddenTab
  \/ TimerFires
  \/ \E i \in 1..Len(hov.runs) : SettingsRead(i)
  \/ \E i \in 1..Len(hov.runs) : Responds(i)
  \/ \E i \in 1..Len(hov.runs) : Chunk(i)
  \/ \E i \in 1..Len(hov.runs) : StreamDone(i)
  \/ \E i \in 1..Len(hov.runs) : Aborted(i)
  \/ \E i \in 1..Len(hov.runs) : Fails(i)

(***************************************************************************)
(* Specifications: one per component, the other components at rest.        *)
(***************************************************************************)
CacheAtRest == CacheInit /\ ttlMs = 0 /\ verify = "size"
LockAtRest == LockInit
PipeAtRest ==
  /\ PipeInit
  /\ pxCfg = [kind |-> "direct", extractStream |-> FALSE,
              formatsDiffer |-> FALSE, ocr |-> FALSE]

StoreAtRest == StoreInit /\ slidesJson = Null

StampsAtRest ==
  /\ StampsInit
  /\ stCfg = [durationSeconds |-> 0, timestamps |-> <<>>,
              minDurationSeconds |-> 0, maxSlides |-> 2]

\* the components that start in one state
LaterAtRest ==
  IxInit /\ CostInit /\ FlowInit /\ RecoveryInit /\ LlmInit /\ SummaryInit
    /\ DetectInit /\ TasksInit
    /\ TargetInit
    /\ LanguageInit
    /\ DirInit
    /\ HoverInit

InitCache ==
  CacheInit /\ LockAtRest /\ PipeAtRest /\ StoreAtRest /\ StampsAtRest
    /\ LaterAtRest
SpecCache == InitCache /\ [][CacheNext]_vars

InitCacheWarm ==
  CacheWarmInit /\ LockAtRest /\ PipeAtRest /\ StoreAtRest /\ StampsAtRest
    /\ LaterAtRest
SpecCacheWarm == InitCacheWarm /\ [][CacheWarmNext]_vars

InitLock ==
  CacheAtRest /\ LockInit /\ PipeAtRest /\ StoreAtRest /\ StampsAtRest
    /\ LaterAtRest
SpecLock == InitLock /\ [][LockNext]_vars
\* the event loop runs a continuation that can run, and a body comes to an end
SpecLockFair == InitLock /\ [][LockNext]_vars /\ WF_vars(LockNext)

InitPipe ==
  CacheAtRest /\ LockAtRest /\ PipeInit /\ StoreAtRest /\ StampsAtRest
    /\ LaterAtRest
SpecPipe == InitPipe /\ [][PipeNext]_vars

InitStore ==
  CacheAtRest /\ LockAtRest /\ PipeAtRest /\ StoreInit /\ StampsAtRest
    /\ LaterAtRest
SpecStore == InitStore /\ [][StoreNext]_vars

InitStamps ==
  CacheAtRest /\ LockAtRest /\ PipeAtRest /\ StoreAtRest /\ StampsInit
    /\ LaterAtRest
SpecStamps == InitStamps /\ [][StampsNext]_vars

InitLater ==
  CacheAtRest /\ LockAtRest /\ PipeAtRest /\ StoreAtRest /\ StampsAtRest
    /\ LaterAtRest
SpecIndex == InitLater /\ [][IxNext]_vars
SpecCost == InitLater /\ [][CostNext]_vars

\* the event loop runs every continuation that is ready
SpecFlow == InitLater /\ [][FlowNext]_vars /\ WF_vars(FlowNext)
SpecRecovery == InitLater /\ [][RecoveryNext]_vars
SpecLlm == InitLater /\ [][LlmNext]_vars
SpecSummary == InitLater /\ [][SummaryNext]_vars
SpecDetect == InitLater /\ [][DetectNext]_vars
SpecTasks == InitLater /\ [][TasksNext]_vars
SpecTarget == InitLater /\ [][TargetNext]_vars
SpecLanguage == InitLater /\ [][LanguageNext]_vars
SpecDir == InitLater /\ [][DirNext]_vars
SpecHover == InitLater /\ [][HoverNext]_vars

(***************************************************************************)
(* Claims about the media cache, checked under SpecCache.                  *)
(***************************************************************************)
Returned(p) == mc[p].pc = "done"

\* C1: whenever index.json is the index a put has just written and returned
\* from, the sizeBytes of its entries add up to at most maxBytes (a put that
\* is rejected returns without writing index.json).
C1_PutKeepsByteCap ==
  \A p \in Callers :
    (Returned(p) /\ mc[p].op = "put" /\ lastWriter = p)
      => TotalBytes(indexFile) <= maxBytes

\* a put has returned after evicting another entry to get under the cap
C1_Witness ==
  \E p \in Callers :
    /\ Returned(p) /\ mc[p].op = "put" /\ lastWriter = p
    /\ mc[p].evicted # {}
    /\ ~IsNull(mc[p].ret)
    /\ indexFile # <<>>

\* C2: when two operations on the same cache directory overlap (only these
\* two have run), each of them having written index.json, the update of each
\* (the entry a put stored, the lastAccessAtMs a get set) is in the final
\* index.json, unless the other one pruned or evicted that entry itself.
C2_NoLostUpdate ==
  \A p, q \in Callers :
    ( /\ p # q
      /\ mcOps = 2
      /\ Returned(p) /\ Returned(q)
      /\ mc[p].wrote /\ mc[q].wrote
      /\ mc[p].url # mc[q].url
      /\ ~IsNull(mc[p].ret)
      /\ hashKey(mc[p].url) \notin mc[q].evicted
      /\ \/ IsNull(Val(mc[p].ret).expiresAtMs)
         \/ Val(Val(mc[p].ret).expiresAtMs) > mc[q].now )
      => /\ HasKey(indexFile, hashKey(mc[p].url))
         /\ EntryAt(indexFile, hashKey(mc[p].url)).lastAccessAtMs
              >= Val(mc[p].ret).lastAccessAtMs

\* C4: the entry a get returns does not expire at or before the time the get
\* read from the clock.
C4_GetNeverReturnsExpired ==
  \A p \in Callers :
    (mc[p].pc \in {"write", "done"} /\ mc[p].op = "get" /\ ~IsNull(mc[p].ret))
      => \/ IsNull(Val(mc[p].ret).expiresAtMs)
         \/ Val(Val(mc[p].ret).expiresAtMs) > mc[p].now

\* a get has pruned the entry of its own url, which expires exactly at the
\* time of the get, and finds nothing to return
C4_Witness ==
  \E p \in Callers :
    /\ mc[p].pc = "read" /\ mc[p].op = "get"
    /\ hashKey(mc[p].url) \in mc[p].pruned
    /\ HasKey(indexFile, hashKey(mc[p].url))
    /\ EntryAt(indexFile, hashKey(mc[p].url)).expiresAtMs = Some(mc[p].now)
    /\ ~HasKey(mc[p].index, hashKey(mc[p].url))

(***************************************************************************)
(* Claims about the media cache in use, checked under SpecCacheWarm.       *)
(***************************************************************************)
\* the latest use of the entry of a key that the put of caller p can have
\* been preceded by: the put that stored it (time 0 for the entries the cache
\* starts with, the time of p's own put for p's url), or a get of another
\* caller that has found and touched it
LastUse(p, key) ==
  LET times ==
        {WarmEntry("https://a").lastAccessAtMs}
          \cup {mc[p].now : x \in {y \in {p} : hashKey(mc[p].url) = key}}
          \cup {mc[q].now : q \in
                  {r \in Callers \ {p} :
                     /\ mc[r].pc \in {"write", "done"}
                     /\ hashKey(mc[r].url) = key
                     /\ IF mc[r].op = "get" THEN ~IsNull(mc[r].ret)
                                            ELSE mc[r].srcMoved}}
  IN CHOOSE t \in times : \A u \in times : u <= t

\* every operation made so far is still on record (no caller has called twice)
AllOnRecord == mcOps = Cardinality({q \in Callers : mc[q].pc # "idle"})

\* C11: when a put evicts entries to get under maxBytes, no entry it keeps
\* was last used (stored, or found by a get) strictly earlier than an entry
\* it evicts.
C11_EvictsLeastRecentlyUsedFirst ==
  [][\A p \in Callers :
       ( /\ AllOnRecord
         /\ mc[p].pc = "read" /\ mc[p].op = "put" /\ mc'[p].pc = "write" )
         => \A k \in mc'[p].evicted :
              \A i \in 1 .. Len(mc'[p].index) :
                LastUse(p, mc'[p].index[i].key) >= LastUse(p, k)]_vars

\* what the claim calls an integrity failure of an entry, given the payload
\* file (<<>> when there is none)
IntegrityFailure(entry, file) ==
  IF IsNull(file) THEN TRUE
  ELSE \/ verify = "size" /\ Val(file).size # entry.sizeBytes
       \/ /\ verify = "hash"
          /\ ~IsNull(entry.sha256)
          /\ hashFile(Val(file)) # Val(entry.sha256)

\* C12: a get that finds the payload of its entry missing, of another size
\* (verify=size) or of another hash (verify=hash) deletes the payload file
\* and goes on to return null; the index.json it then writes no longer has
\* the entry.
C12_IntegrityFailureInvalidates ==
  [][\A p \in Callers :
       LET key == hashKey(mc[p].url) IN
       /\ ( /\ mc[p].pc = "read" /\ mc[p].op = "get" /\ mc'[p].pc # "read"
            /\ HasKey(mc[p].index, key)
            /\ IntegrityFailure(EntryAt(mc[p].index, key),
                                payloads[EntryAt(mc[p].index, key).fileName]) )
           => /\ mc'[p].pc = "write"
              /\ IsNull(mc'[p].ret)
              /\ ~HasKey(mc'[p].index, key)
              /\ IsNull(payloads'[EntryAt(mc[p].index, key).fileName])
       /\ ( /\ mc[p].pc = "write" /\ mc[p].op = "get" /\ mc'[p].pc = "done"
            /\ mc[p].evicted # {} )
           => /\ IsNull(mc'[p].ret)
              /\ ~HasKey(indexFile', key)]_vars

\* under verify=hash a get has returned null for an entry whose payload was
\* overwritten or deleted: index.json is the one it wrote, without the entry,
\* and the payload file is gone
C12_Witness ==
  \E p \in Callers :
    /\ verify = "hash"
    /\ Returned(p) /\ mc[p].op = "get" /\ mc[p].wrote /\ lastWriter = p
    /\ mc[p].evicted = {hashKey(mc[p].url)}
    /\ IsNull(mc[p].ret)
    /\ ~HasKey(indexFile, hashKey(mc[p].url))
    /\ IsNull(payloads[FileNameOf(mc[p].url, ".mp3")])

\* C13: a put of a url that is not http(s), or of a source file larger than
\* maxBytes, returns null without moving the source file, without writing
\* index.json and without putting a payload file in place for that url.
C13_RejectedPutTouchesNothing ==
  [][\A p \in Callers :
       /\ ( /\ Free(p) /\ mc'[p] # mc[p] /\ mc'[p].op = "put"
            /\ mc'[p].url \in OtherUrls )
           => /\ Returned(p)' /\ IsNull(mc'[p].ret)
              /\ ~mc'[p].srcMoved /\ ~mc'[p].wrote
              /\ indexFile' = indexFile /\ payloads' = payloads
       /\ ( /\ mc[p].pc = "read" /\ mc[p].op = "put" /\ mc'[p].pc # "read"
            /\ mc[p].src.size > maxBytes )
           => /\ Returned(p)' /\ IsNull(mc'[p].ret)
              /\ ~mc'[p].srcMoved /\ ~mc'[p].wrote
              /\ indexFile' = indexFile /\ payloads' = payloads]_vars

\* a put of a source file larger than maxBytes has returned null for a url
\* that has an entry: the source file is where it was, and the entry and its
\* payload are the ones stored before
C13_Witness ==
  \E p \in Callers :
    /\ Returned(p) /\ mc[p].op = "put" /\ mc[p].url \in HttpUrls
    /\ IsNull(mc[p].ret) /\ ~mc[p].wrote /\ ~mc[p].srcMoved
    /\ HasKey(indexFile, hashKey(mc[p].url))
    /\ EntryAt(indexFile, hashKey(mc[p].url)) = WarmEntry(mc[p].url)
    /\ payloads[FileNameOf(mc[p].url, ".mp3")] = Some(WarmContent)

\* C14: once a get or put of an http(s) url has returned, having run alone
\* on the cache directory, index.json has no entry that was expired at the
\* time of the call, and the payload file of every entry that was expired
\* then is deleted (unless the call is a put that has just stored it anew).
C14_ExpiredEntriesRemoved ==
  \A p \in Callers :
    (mcOps = 1 /\ Returned(p) /\ mc[p].url \in HttpUrls)
      => /\ \A i \in 1 .. Len(indexFile) : ~IsExpired(indexFile[i], mc[p].now)
         /\ \A u \in HttpUrls :
              IsExpired(WarmEntry(u), mc[p].now)
                => \/ IsNull(payloads[FileNameOf(u, ".mp3")])
                   \/ mc[p].srcMoved /\ mc[p].url = u

(***************************************************************************)
(* Claims about the slides lock, checked under SpecLock.                   *)
(***************************************************************************)
InBody(c) == lk[c].pc = "body"

\* C3: no two callers are inside the extraction body for the same slidesDir
\* at the same time.
C3_OneBodyPerSlidesDir ==
  \A c, d \in LockCallers :
    (c # d /\ InBody(c) /\ InBody(d)) => lk[c].key # lk[d].key

\* a caller that had to wait for its predecessor is in the body while another
\* caller for the same slidesDir is queued behind it
C3_Witness ==
  \E c, d \in LockCallers :
    /\ c # d
    /\ InBody(c) /\ lk[c].queued
    /\ lk[d].pc = "waiting" /\ lk[d].queued /\ lk[d].key = lk[c].key
    /\ lk[d].previous = Some(lk[c].current)

(***************************************************************************)
(* Claims about the slide-extraction pipeline, checked under SpecPipe.     *)
(***************************************************************************)
Settled == px.pc \in {"returned", "threw"}

\* C5: once slide extraction has settled, by returning or by throwing, no
\* temp directory that downloadYoutubeVideo created is left.
C5_TempDirsRemoved == Settled => tmpDirs = {}

\* C9: a stage that fails on a stream URL starts exactly one download, the
\* completed download is followed by exactly one retry of the stage, no
\* stage is retried twice or without that download, and a failed retry
\* fails the extraction.
C9_OneDownloadOneRetry ==
  \A s \in Stages :
    LET l == stageLog[s]
    IN /\ l.streamFails <= 1
       /\ l.downloads = l.streamFails
       /\ l.retries = l.downloaded
       /\ l.downloaded <= l.downloads
       /\ (l.downloaded < l.downloads) => (px.pc = "download" \/ px.pc = "threw")
       /\ l.retryFailed => px.pc = "threw"

\* the extraction has returned a result although scene detection and frame
\* extraction each failed once on their stream URL
C9_Witness ==
  /\ px.pc = "returned"
  /\ \A s \in Stages : stageLog[s].streamFails = 1 /\ stageLog[s].retries = 1

\* C10: while the extraction runs, no progress message carries a smaller
\* percentage than the message delivered before it.
C10_PercentNeverDecreases == ~Settled => ~prog.decreased

(***************************************************************************)
(* Claims about the slides manifest cache, checked under SpecStore.        *)
(***************************************************************************)
\* the path, a relative one taken from dir, lies below dir
Inside(dir, p) ==
  LET at == IF p.abs THEN Normalized(p.segs, <<>>)
            ELSE Normalized(dir.segs \o p.segs, <<>>)
  IN /\ Len(at) > Len(dir.segs)
     /\ SubSeq(at, 1, Len(dir.segs)) = dir.segs

\* C6: every imagePath of a result that extractSlidesForSource returns,
\* freshly extracted or read back from slides.json, lies inside slidesDir.
C6_ImagePathsInsideSlidesDir ==
  (sret.by = "extract" /\ ~IsNull(sret.result))
    => \A i \in DOMAIN Val(sret.result).slides :
         Inside(SlidesDir, Val(sret.result).slides[i])

\* what the claim asks of a manifest that is accepted for TheSource and
\* TheSettings
ManifestValid(m) ==
  /\ m.sourceId = TheSource.sourceId
  /\ m.sourceKind = TheSource.kind
  /\ m.sourceUrl = TheSource.url
  /\ normalizePath(m.slidesDir) = AbsPath(OutputDir.segs \o <<TheSource.sourceId>>)
  /\ m.slidesDirId = Some(<<"sha1", AbsPath(OutputDir.segs \o <<TheSource.sourceId>>)>>)
  /\ m.settings = TheSettings
  /\ \A i \in DOMAIN m.slides :
       /\ Inside(SlidesDir, m.slides[i])
       /\ (IF m.slides[i].abs THEN normalizePath(m.slides[i])
                              ELSE Join(SlidesDir, m.slides[i])) \in disk

\* C16: the store accepts the slides.json it reads exactly when the
\* manifest matches the source, the slides directory, the directory id and
\* the settings and all its images are files inside slidesDir; the
\* extractor takes its result from a slides.json only when that is so.
C16_ManifestAcceptedIffValid ==
  /\ (sret.by = "store" /\ ~IsNull(slidesJson))
       => (sret.cached <=> ManifestValid(Val(slidesJson)))
  /\ (sret.by = "extract" /\ sret.cached)
       => ManifestValid(Val(slidesJson))

(***************************************************************************)
(* Claims about the slides of a result, checked under SpecStamps.          *)
(***************************************************************************)
\* C7: in a returned result every slide is at least minSlideDuration after
\* the slide before it, thumbnail refinement included.
C7_SlidesSpacedByMinDuration ==
  stPc = "returned" =>
    \A i \in 1 .. (Len(stSlides) - 1) :
      stSlides[i + 1].timestamp - stSlides[i].timestamp >= stCfg.minDurationSeconds

\* C8: in a returned result the slides are numbered 1, 2, ..., n in list
\* order and their timestamps do not decrease.
C8_IndexedInTimeOrder ==
  stPc = "returned" =>
    /\ \A i \in 1 .. Len(stSlides) : stSlides[i].index = i
    /\ \A i \in 1 .. (Len(stSlides) - 1) :
         stSlides[i].timestamp <= stSlides[i + 1].timestamp

(***************************************************************************)
(* Claims about the index file, checked under SpecIndex.                   *)
(***************************************************************************)
\* an index as one writer serialized it, whole
Complete(content) ==
  \E w \in IxWriters \cup {"created"}, len \in 1 .. MaxIndexLen :
    content = Serialized(w, len)

\* C15: at every moment the content of index.json, and so what a reader
\* of it gets, is one complete index that some operation wrote.
C15_IndexReplacedAtomically ==
  /\ Complete(ix.inodes[ix.dir[IndexPath]])
  /\ Complete(ix.seen)

(***************************************************************************)
(* Claims about the cost report, checked under SpecCost.                   *)
(***************************************************************************)
\* the token counts of a column that the calls of a row's provider and model
\* reported, in call order
Contributions(row, column) ==
  LET calls == SelectSeq(cost.llmCalls,
                 LAMBDA call : call.provider = row.provider /\ call.model = row.model)
  IN [i \in 1 .. Len(calls) |->
        IF IsNull(calls[i].usage) THEN Null ELSE Val(calls[i].usage)[column]]

\* C17: a row whose calls include one with a null token count in a column
\* has null in that column.
C17_NullCountMakesAggregateNull ==
  ~IsNull(cost.report) =>
    \A k \in DOMAIN Val(cost.report).llm, column \in TokenColumns :
      LET row == Val(cost.report).llm[k] IN
      (\E i \in DOMAIN Contributions(row, column) :
         IsNull(Contributions(row, column)[i]))
        => IsNull(row[column])

\* C18: a column of a row is null exactly when none of the row's calls
\* reported a finite number for it, and otherwise is the sum of the finite
\* numbers reported.
C18_AggregateNullIffNoNumber ==
  ~IsNull(cost.report) =>
    \A k \in DOMAIN Val(cost.report).llm, column \in TokenColumns :
      LET row == Val(cost.report).llm[k]
          given == Contributions(row, column)
          finite == {i \in DOMAIN given :
                       given[i] # Null /\ given[i] # NaN}
      IN /\ IsNull(row[column]) <=> finite = {}
         /\ finite # {} =>
              row[column] =
                Some(SumSeq([i \in DOMAIN given |->
                               IF i \in finite THEN Val(given[i]) ELSE 0]))

\* a report has a row of two calls or more in which one column is null, no
\* call having a finite number for it, and another column is the sum of the
\* numbers of the calls that have one, a call without a number among them
C18_Witness ==
  /\ ~IsNull(cost.report)
  /\ \E k \in DOMAIN Val(cost.report).llm :
       LET row == Val(cost.report).llm[k] IN
       /\ row.calls >= 2
       /\ IsNull(row.completionTokens)
       /\ row.promptTokens = Some(2)
       /\ \E i \in DOMAIN Contributions(row, "promptTokens") :
            Contributions(row, "promptTokens")[i] = Null

(***************************************************************************)
(* Claims about the URL flow, checked under SpecFlow.                      *)
(***************************************************************************)
\* C19: in every URL run in which slides are requested the onSlidesDone
\* hook is never called more than once, what it is given is {ok: true} when
\* the slide extraction succeeded and {ok: false, error} when it failed, and
\* the run leads to the hook having been called exactly once.
C19_SlidesDoneExactlyOnce ==
  \A r \in Runs :
    /\ [](flow[r].slides =>
           /\ Len(flow[r].onSlidesDone) <= 1
           /\ \A i \in DOMAIN flow[r].onSlidesDone :
                LET given == flow[r].onSlidesDone[i]
                IN IF flow[r].pipeline = "resolved"
                     THEN given.ok /\ IsNull(given.error)
                     ELSE /\ flow[r].pipeline = "rejected"
                          /\ ~given.ok
                          /\ ~IsNull(given.error))
    /\ (flow[r].slides ~> Len(flow[r].onSlidesDone) = 1)

\* the slides of a run have failed and the hook has been told so, while the
\* summary of the run is still under way
C19_Witness ==
  \E r \in Runs :
    /\ flow[r].slides
    /\ flow[r].stage = "spawned"
    /\ flow[r].pipeline = "rejected"
    /\ flow[r].onSlidesDone = <<[ok |-> FALSE, error |-> Some("slides failed")]>>

(***************************************************************************)
(* Claims about the daemon recovery, checked under SpecRecovery.           *)
(***************************************************************************)
\* C20: a recovery check returns true only if a pending URL was there, put
\* there by a failure that found the daemon unreachable, and the check was
\* made with the daemon ready, the current URL matching and the client
\* idle; a check made with the daemon not ready or the client not idle
\* returns false and leaves the pending URL as it was.
C20_RecoversOnlyWhenReadyMatchingIdle ==
  /\ ~IsNull(rec.pendingUrl) => rec.failures > 0
  /\ ~IsNull(rec.check) =>
       LET c == Val(rec.check)
       IN /\ c.result =>
               /\ ~IsNull(c.pendingBefore)
               /\ rec.failures > 0
               /\ c.isReady
               /\ c.currentUrlMatches
               /\ c.isIdle
          /\ (~c.isReady \/ ~c.isIdle) =>
               /\ ~c.result
               /\ rec.pendingUrl = c.pendingBefore

\* a check has just recovered: it returned true and took the pending URL
C20_Witness ==
  /\ ~IsNull(rec.check)
  /\ Val(rec.check).result
  /\ ~IsNull(Val(rec.check).pendingBefore)
  /\ IsNull(rec.pendingUrl)

Whitespace == {" ", "\n", "\t"}

IsBlank(text) == \A i \in DOMAIN text : text[i] \in Whitespace

\* C22: a call for a text sends at most two requests; it never returns a
\* text that is empty or only whitespace, since such a reply is retried
\* once and a second one makes the call fail.
C22_BlankReplyRetriedOnce ==
  llmCall.kind = "generate" =>
    /\ llmCall.requests <= 2
    /\ llmCall.pc = "returned" => ~IsBlank(llmCall.text)

\* C25: a stream that has yielded nothing when timeoutMs have passed has
\* been aborted by the timer of the call, and a read that the abort fails
\* reports that the call timed out.
C25_StalledStreamTimesOut ==
  llmCall.kind = "stream" =>
    /\ (llmCall.pc = "streaming" /\ llmCall.overdue /\ llmCall.text = <<>>) => llmCall.aborted
    /\ (llmCall.pc = "readFailed" /\ llmCall.aborted) =>
         llmCall.error = Some("LLM request timed out")

(***************************************************************************)
(* Claims about the summary of a run, checked under SpecSummary.           *)
(***************************************************************************)
OverCap(m) == summ.inputTokens > summ.caps[m]

\* C23: no LLM call is made for a model whose cap the estimated input-token
\* count exceeds; a run whose models are all over their cap ends failed,
\* with an error, which is the input-too-large error when any of them has
\* credentials, and without a single LLM call.
C23_OverCapRefusedBeforeAnyCall ==
  /\ \A k \in DOMAIN summ.tried :
       OverCap(summ.tried[k].model) =>
         summ.tried[k].outcome \in {"skipped", "refused"}
  /\ summ.pc = "calling" => ~OverCap(summ.candidates[summ.i])
  /\ (/\ summ.pc \in {"done", "failed"}
      /\ \A k \in DOMAIN summ.candidates : OverCap(summ.candidates[k]))
       => /\ summ.pc = "failed"
          /\ ~IsNull(summ.error)
          /\ (\E k \in DOMAIN summ.candidates :
                summ.candidates[k] \in summ.keys)
               => summ.error = Some(InputTooLarge)

\* the run of one model with credentials, whose cap the input exceeds, has
\* failed with the input-too-large error
C23_Witness ==
  /\ ~summ.auto
  /\ summ.pc = "failed"
  /\ summ.candidates[1] \in summ.keys
  /\ OverCap(summ.candidates[1])
  /\ summ.tried = <<[model |-> summ.candidates[1], outcome |-> "refused"]>>
  /\ summ.error = Some(InputTooLarge)

\* C24: in auto mode the candidates are taken in their listed order; a
\* candidate is skipped, with no LLM call, exactly when it has no
\* credentials; a failed candidate is followed by the next one; the first
\* success ends the run; and the run fails, with an error, only when every
\* candidate has failed.
C24_AutoTriesCandidatesInOrder ==
  summ.auto =>
    LET t == summ.tried
        c == summ.candidates
    IN /\ Len(t) <= Len(c)
       /\ \A k \in DOMAIN t :
            /\ t[k].model = c[k]
            /\ (t[k].outcome = "skipped") = (c[k] \notin summ.keys)
            /\ t[k].outcome = "ok" => k = Len(t) /\ summ.pc = "done"
       /\ summ.pc = "done" => t # <<>> /\ t[Len(t)].outcome = "ok"
       /\ summ.pc \in {"trying", "calling"} => summ.i = Len(t) + 1
       /\ summ.pc = "calling" => c[summ.i] \in summ.keys
       /\ (summ.pc = "failed") = ~IsNull(summ.error)
       /\ summ.pc = "failed" =>
            /\ Len(t) = Len(c)
            /\ \A k \in DOMAIN t : t[k].outcome # "ok"

\* the request for the first candidate failed and the second succeeded
C24_Witness ==
  /\ summ.auto
  /\ summ.pc = "done"
  /\ Len(summ.tried) = 2
  /\ summ.tried[1].outcome = "errored"
  /\ summ.tried[2].outcome = "ok"

(***************************************************************************)
(* Claims about scene detection, checked under SpecDetect.                 *)
(***************************************************************************)
\* C26: the video is split into at most `workers` segments, and when it is
\* at least 60 seconds long no segment is shorter than 60 seconds.
C26_SegmentsAtLeastOneMinute ==
  det.pc # "idle" =>
    /\ Len(det.split.segments) <= det.workers
    /\ (~IsNull(det.durationSeconds) /\ Val(det.durationSeconds) >= 60) =>
         \A k \in DOMAIN det.split.segments :
           det.split.segments[k].duration >= 60 * det.split.count

C28_TasksWithinWorkerCount ==
  /\ resolveSlidesWorkers(<<"unset">>) = 8
  /\ \A raw \in WorkerSettings : resolveSlidesWorkers(raw) \in 1..16
  /\ Cardinality(frames[1].running) + Cardinality(frames[2].running)
       <= SlidesWorkers

PicksOf(cfg) ==
  LET interval == buildIntervalTimestamps(cfg.durationSeconds,
                    cfg.minDurationSeconds, cfg.maxSlides)
      combined == mergeTimestamps(cfg.timestamps,
                    IF IsNull(interval) THEN <<>> ELSE Val(interval).timestamps,
                    cfg.minDurationSeconds)
      selected ==
        IF IsNull(interval) THEN combined
        ELSE IF Val(interval).timestamps = <<>> THEN combined
        ELSE selectTimestampTargets(Val(interval).timestamps, cfg.timestamps,
               cfg.minDurationSeconds, Val(interval).intervalSeconds)
  IN filterTimestampsByMinDuration(selected, cfg.minDurationSeconds)

\* C30: the slides of an extraction are never more than maxSlides; the
\* slides kept when the picks are trimmed are as many as maxSlides allows,
\* every pick kept is at or before every pick dropped, and the kept ones
\* are indexed 1, 2, ... in that order.
C30_EarliestPicksKept ==
  LET picks == PicksOf(stCfg)
      n == Min(stCfg.maxSlides, Len(picks))
  IN /\ stPc \in {"extracted", "returned"} => Len(stSlides) <= stCfg.maxSlides
     /\ (stPc = "extracted" /\ stFixed = {}) =>
          /\ Len(stSlides) = n
          /\ \A k \in 1 .. n :
               /\ stSlides[k].index = k
               /\ stSlides[k].timestamp = picks[k]
               /\ \A j \in DOMAIN picks :
                    (\A i \in 1 .. n : picks[j] # picks[i])
                      => picks[j] >= picks[k]

\* more picks than maxSlides were found and the trimmed slides returned
C30_Witness ==
  /\ stPc = "returned"
  /\ Len(PicksOf(stCfg)) > stCfg.maxSlides
  /\ Len(stSlides) = stCfg.maxSlides

(***************************************************************************)
(* Claims about a failure of the slides of a run, checked under SpecFlow.  *)
(***************************************************************************)
\* C31: the step in which the slides pipeline of a run settles leaves the
\* stage of the run as it was; a run that only extracts never fails; a run
\* whose slides were rejected still comes to its end, and an extract-only
\* one ends well; and the rejection is what the done hook was given, once,
\* as {ok: false, error}.
C31_SlidesFailureLeavesTheRunAlone ==
  /\ [][\A r \in Runs :
          flow'[r].pipeline \in {"resolved", "rejected"}
            /\ flow'[r].pipeline # flow[r].pipeline
          => flow'[r].stage = flow[r].stage]_vars
  /\ \A r \in Runs :
       /\ [](flow[r].extractOnly => flow[r].stage # "failed")
       /\ [](flow[r].pipeline = "rejected"
               => flow[r].onSlidesDone = <<SlidesDoneResult(FALSE)>>)
       /\ (flow[r].pipeline = "rejected"
             ~> flow[r].stage \in {"done", "failed"})
       /\ (flow[r].pipeline = "rejected" /\ flow[r].extractOnly
             ~> flow[r].stage = "done")

\* an extract-only run has ended well after its slides were rejected
C31_Witness ==
  \E r \in Runs :
    /\ flow[r].extractOnly
    /\ flow[r].stage = "done"
    /\ flow[r].pipeline = "rejected"
    /\ Len(flow[r].onSlidesDone) = 1

(***************************************************************************)
(* Claims about the total of the cost report, checked under SpecCost.      *)
(***************************************************************************)
\* the costs of a report that are there: those of its rows and those of
\* the services that were used
AvailableCosts(report) ==
  SelectSeq([k \in DOMAIN report.llm |-> report.llm[k].estimatedUsd]
              \o (IF report.services.firecrawl.requests > 0
                    THEN <<report.services.firecrawl.estimatedUsd>> ELSE <<>>)
              \o (IF report.services.apify.requests > 0
                    THEN <<report.services.apify.estimatedUsd>> ELSE <<>>),
            LAMBDA usd : ~IsNull(usd))

\* C32: totalEstimatedUsd is null when no row of the report has an
\* estimated cost and neither Firecrawl nor Apify was requested; otherwise,
\* when a cost of a row or of a used service is there, it is the sum of
\* those costs.
C32_TotalNullUnlessContributed ==
  ~IsNull(cost.report) =>
    LET report == Val(cost.report)
        available == AvailableCosts(report)
    IN /\ ((\A k \in DOMAIN report.llm : IsNull(report.llm[k].estimatedUsd))
             /\ cost.firecrawlRequests = 0 /\ cost.apifyRequests = 0)
          => IsNull(report.totalEstimatedUsd)
       /\ available # <<>> =>
            report.totalEstimatedUsd =
              Some(SumSeq([i \in DOMAIN available |-> Val(available[i])]))

(***************************************************************************)
(* Claims about resolveInputTarget, checked under SpecTarget.              *)
(***************************************************************************)
\* the input parses as a URL of a scheme other than http, https and file,
\* and names no file
OtherScheme(raw) ==
  /\ raw \notin tgt.files
  /\ ~IsNull(protocolOf(raw))
  /\ Val(protocolOf(raw)) \notin {"http:", "https:", "file:"}

\* the part of the input from the last http:// or https:// on, or none
EmbeddedUrl(raw) ==
  LET at == {i \in DOMAIN raw : raw[i] \in HttpPrefixes}
  IN IF at = {} THEN Null
     ELSE Some(SubSeq(raw, CHOOSE i \in at : \A j \in at : j <= i, Len(raw)))

\* C33: an input that parses as a URL of a scheme other than http, https
\* and file is resolved as the URL that starts at the last http:// or
\* https:// in it, and is rejected if it has none.
C33_ResolvedFromLastPrefix ==
  (~IsNull(tgt.raw) /\ OtherScheme(Val(tgt.raw))) =>
    LET embedded == EmbeddedUrl(Val(tgt.raw))
    IN IF IsNull(embedded)
         THEN Val(tgt.result).kind = "error"
         ELSE Val(tgt.result) = [kind |-> "url", url |-> Val(embedded)]

\* C33, amended: such an input is resolved as the URL that starts at the
\* last http:// or https:// in it when that part is a URL with a host and
\* names no file; it is resolved as the file when that part names one; it
\* is rejected when that part is no URL or when there is no such prefix.
C33_ResolvedFromLastPrefixIfUrl ==
  (~IsNull(tgt.raw) /\ OtherScheme(Val(tgt.raw))) =>
    LET embedded == EmbeddedUrl(Val(tgt.raw))
    IN IF IsNull(embedded)
         THEN Val(tgt.result).kind = "error"
       ELSE IF Val(embedded) \in tgt.files
         THEN Val(tgt.result) = [kind |-> "file", filePath |-> Val(embedded)]
       ELSE IF Len(Val(embedded)) = 1 \/ Val(embedded)[2] = "?u="
         THEN Val(tgt.result).kind = "error"
       ELSE Val(tgt.result) = [kind |-> "url", url |-> Val(embedded)]

\* an input of another scheme with an https:// and after it an http://
\* URL was resolved as the http:// URL
C33_Witness ==
  /\ tgt.raw = Some(<<"slack:", "https://", "http://", "a.com">>)
  /\ tgt.result = Some([kind |-> "url", url |-> <<"http://", "a.com">>])

(***************************************************************************)
(* Claims about resolveOutputLanguage, checked under SpecLanguage.         *)
(***************************************************************************)
\* C34: for every key of the language table, resolving the label of the
\* result gives the same result, tag and label, again.
C34_ResolveOfLabelIsStable ==
  (~IsNull(lang.second) /\ Val(lang.raw) \in AliasKeys)
    => lang.second = lang.first

(***************************************************************************)
(* Claims about the tasks an extraction leaves behind, checked under       *)
(* SpecPipe.                                                               *)
(***************************************************************************)
\* C35: when the extraction has settled, and the lock with it, no frame
\* task of any of its attempts is still running, and when the second
\* attempt of the frame stage starts no task of the first is still running.
C35_NoTaskOutlivesItsAttempt ==
  /\ Settled => \A a \in Attempts : frames[a].running = {}
  /\ frames[2].started => frames[1].running = {}

(***************************************************************************)
(* Claims about the release of the slides lock, checked under SpecLockFair.*)
(***************************************************************************)
\* C36: every caller that waits for the lock of a slidesDir comes to run
\* its own body, also when the holder before it threw, and a caller throws
\* only out of its own body, never while it waits.
C36_LockReleasedOnThrow ==
  /\ [][\A c \in LockCallers :
          (lk'[c].pc = "threw" /\ lk[c].pc # "threw") => lk[c].pc = "body"]_vars
  /\ \A c \in LockCallers : lk[c].pc = "waiting" ~> lk[c].pc = "body"

\* the first holder of a slidesDir threw, and the caller queued behind it
\* runs its body
C36_Witness ==
  \E c, d \in LockCallers :
    /\ lkCalls = 2
    /\ lk[d].pc = "threw"
    /\ lk[c].pc = "body" /\ lk[c].queued /\ lk[c].key = lk[d].key
    /\ lk[c].previous = Some(1)

(***************************************************************************)
(* Claims about the files of slidesDir, checked under SpecDir.             *)
(***************************************************************************)
\* C37: when an extraction has returned, the slide images in slidesDir are
\* exactly the image files that slides.json lists.
C37_OnlyListedSlideImages ==
  sdir.pc = "returned" =>
    {entry \in sdir.files : IsSlideImage(entry)} = Val(sdir.manifest)


\* bytes of the payload files in the cache directory
DiskBytes ==
  LET names == {f \in FileNames : ~IsNull(payloads[f])}
      RECURSIVE Sum(_)
      Sum(S) == IF S = {} THEN 0
                ELSE LET f == CHOOSE g \in S : TRUE
                     IN Val(payloads[f]).size + Sum(S \ {f})
  IN Sum(names)

\* C38: when one caller has used the cache directory alone and its get or put
\* has returned, every payload file in the directory is the fileName of an
\* entry of index.json, and the files add up to at most maxBytes; also after
\* the same url was put again under another extension.
C38_PayloadsAreReferenced ==
  (mc["p2"].pc = "idle" /\ mc["p1"].pc = "done")
    => /\ \A f \in FileNames :
            ~IsNull(payloads[f])
              => \E i \in 1..Len(indexFile) : indexFile[i].fileName = f
       /\ DiskBytes <= maxBytes


\* C39: when one caller has used the cache directory alone and its put of a
\* source file that fits under maxBytes has returned, the put returned an
\* entry, index.json holds that entry and its payload file is in place (so
\* that the get that follows finds it).
C39_PutKeepsItsOwnEntry ==
  (mc["p2"].pc = "idle" /\ mc["p1"].pc = "done" /\ mc["p1"].op = "put"
     /\ mc["p1"].srcMoved)
    => /\ ~IsNull(mc["p1"].ret)
       /\ HasKey(indexFile, hashKey(mc["p1"].url))
       /\ ~IsNull(payloads[EntryAt(indexFile, hashKey(mc["p1"].url)).fileName])


\* a summarize request of a handleHover call is in flight
InFlight(run) == run.pc \in {"fetch", "stream"} /\ ~run.aborted

\* C40: the tooltip that is visible belongs to the link the pointer is over,
\* and every summarize request in flight is for that link; with the pointer
\* over no link there is no tooltip and no request.
C40_TooltipOnlyForHoveredLink ==
  /\ ~IsNull(hov.tooltip) => Val(hov.tooltip).anchor = hov.pointer
  /\ \A i \in 1..Len(hov.runs) :
       InFlight(hov.runs[i]) => hov.runs[i].anchor = hov.pointer

====
